---- MODULE Spec2Model ----
(***************************************************************************)
(* Pattern lowering (HIR pattern -> THIR pattern) of                       *)
(* compiler/rustc_mir_build/src/thir/pattern/mod.rs.                       *)
(*                                                                         *)
(* The lowering functions are pure recursive descents over the surface     *)
(* pattern; they are operators here.  Every operator that can emit a       *)
(* diagnostic takes the diagnostics emitted so far (the session's sink,    *)
(* tcx.sess) and returns the extended sequence with its value.  A panic    *)
(* (bug!, span_bug!, assert!, expect, unwrap) is the value ok = FALSE.     *)
(* The variables record the call made (called, input) and what it returned.    *)
(***************************************************************************)
EXTENDS Integers, Sequences, FiniteSets, TLC

VARIABLES called, input, result, folded

vars == <<called, input, result, folded>>

(***************************************************************************)
(* Bounds of the explored inputs.                                          *)
(***************************************************************************)
\* longest list of sub-patterns (or-alternatives, slice prefix / suffix)
MaxLen == 2
\* longest implicit-dereference adjustment list of a node
MaxAdjust == 2
\* largest declared length of an array type
MaxArrayLen == 2

NoValue == [none |-> TRUE]

(***************************************************************************)
(* Types (ty::TyKind).  w: the size in bits of a scalar type, the length   *)
(* of an array type, the arity of a tuple type, the ADT's identity.        *)
(***************************************************************************)
I8 == [k |-> "Int", w |-> 8]
I16 == [k |-> "Int", w |-> 16]
U8 == [k |-> "Uint", w |-> 8]
CharTy == [k |-> "Char", w |-> 32]
BoolTy == [k |-> "Bool", w |-> 8]
F32 == [k |-> "Float", w |-> 32]
F64 == [k |-> "Float", w |-> 64]

IntegerTys == {I8, I16, U8}
FloatTys == {F32, F64}
ScalarTys == IntegerTys \cup FloatTys \cup {CharTy, BoolTy}

\* Integer::from_int_ty(..).size(), in bytes
SizeBytes(ty) == ty.w \div 8

Pow2(n) == 2 ^ n

(***************************************************************************)
(* Bit patterns.  A constant's bits are its bytes, most significant first: *)
(* the checker's integers are 32 bits wide and an f64 has 64.              *)
(***************************************************************************)
RECURSIVE BytesToNat(_)
BytesToNat(bs) ==
    IF bs = <<>> THEN 0
    ELSE 256 * BytesToNat(SubSeq(bs, 1, Len(bs) - 1)) + bs[Len(bs)]

\* the low `n` bytes of v: Size::truncate
RECURSIVE NatToBytes(_, _)
NatToBytes(v, n) ==
    IF n = 0 THEN <<>>
    ELSE Append(NatToBytes(v \div 256, n - 1), v % 256)

CmpInt(a, b) == IF a < b THEN "Less" ELSE IF a = b THEN "Equal" ELSE "Greater"

\* u128::cmp / ScalarInt::cmp on two bit patterns of the same size
RECURSIVE CmpBytes(_, _)
CmpBytes(a, b) ==
    IF a = <<>> \/ b = <<>> THEN CmpInt(Len(a), Len(b))
    ELSE IF a[1] # b[1] THEN CmpInt(a[1], b[1])
    ELSE CmpBytes(Tail(a), Tail(b))

Reverse(o) == CASE o = "Less" -> "Greater" [] o = "Greater" -> "Less" [] OTHER -> o

(***************************************************************************)
(* mir::Const: repr "Ty" is a type-level constant holding a valtree leaf,  *)
(* repr "Val" an evaluated ConstValue::Scalar(Scalar::Int).                *)
(***************************************************************************)
MkConst(repr, ty, bits) == [repr |-> repr, ty |-> ty, bits |-> bits]

Bits8 == {<<0>>, <<1>>, <<2>>, <<127>>, <<128>>, <<255>>}
Bits16 == {<<0, 0>>, <<0, 255>>, <<127, 255>>, <<128, 0>>, <<255, 255>>}
BitsChar == {<<0, 0, 0, 97>>, <<0, 0, 3, 122>>, <<0, 16, 255, 255>>}
BitsBool == {<<0>>, <<1>>}
\* +0, -0, min subnormal, 1, -1, 1.5, 2, +inf, -inf, three NaNs
BitsF32 ==
    {<<0, 0, 0, 0>>, <<128, 0, 0, 0>>, <<0, 0, 0, 1>>, <<63, 128, 0, 0>>,
     <<191, 128, 0, 0>>, <<63, 192, 0, 0>>, <<64, 0, 0, 0>>, <<127, 128, 0, 0>>,
     <<255, 128, 0, 0>>, <<127, 192, 0, 0>>, <<255, 192, 0, 0>>, <<127, 128, 0, 1>>}
BitsF64 ==
    {<<0, 0, 0, 0, 0, 0, 0, 0>>, <<128, 0, 0, 0, 0, 0, 0, 0>>,
     <<0, 0, 0, 0, 0, 0, 0, 1>>, <<63, 240, 0, 0, 0, 0, 0, 0>>,
     <<191, 240, 0, 0, 0, 0, 0, 0>>, <<64, 0, 0, 0, 0, 0, 0, 0>>,
     <<127, 240, 0, 0, 0, 0, 0, 0>>, <<255, 240, 0, 0, 0, 0, 0, 0>>,
     <<127, 248, 0, 0, 0, 0, 0, 0>>, <<127, 240, 0, 0, 0, 0, 0, 1>>}

BitsOf(ty) ==
    CASE ty = I8 -> Bits8
      [] ty = U8 -> Bits8
      [] ty = I16 -> Bits16
      [] ty = CharTy -> BitsChar
      [] ty = BoolTy -> BitsBool
      [] ty = F32 -> BitsF32
      [] ty = F64 -> BitsF64

ConstsOf(ty) == {MkConst(r, ty, b) : r \in {"Ty", "Val"}, b \in BitsOf(ty)}

Consts == UNION {ConstsOf(ty) : ty \in ScalarTys}

\* the pairs compared: of one type, or of two types with the same bits
ConstPairs == {p \in Consts \X Consts : p[1].ty = p[2].ty \/ p[1].bits = p[2].bits}

(***************************************************************************)
(* IEEE binary32 / binary64 read from the bits (Single / Double            *)
(* ::from_bits) and their partial order.                                   *)
(***************************************************************************)
FloatSign(bs) == bs[1] >= 128

FloatExp(bs, w) ==
    IF w = 32 THEN (bs[1] % 128) * 2 + (bs[2] \div 128)
    ELSE (bs[1] % 128) * 16 + (bs[2] \div 16)

FloatMant(bs, w) ==
    IF w = 32 THEN <<bs[2] % 128>> \o SubSeq(bs, 3, 4)
    ELSE <<bs[2] % 16>> \o SubSeq(bs, 3, 8)

FloatMaxExp(w) == IF w = 32 THEN 255 ELSE 2047

AllZero(s) == \A i \in 1..Len(s) : s[i] = 0

FloatIsNaN(bs, w) == FloatExp(bs, w) = FloatMaxExp(w) /\ ~AllZero(FloatMant(bs, w))

FloatIsZero(bs, w) == FloatExp(bs, w) = 0 /\ AllZero(FloatMant(bs, w))

\* the order of the magnitudes of two non-NaN floats
FloatCmpAbs(a, b, w) ==
    IF FloatExp(a, w) # FloatExp(b, w) THEN CmpInt(FloatExp(a, w), FloatExp(b, w))
    ELSE CmpBytes(FloatMant(a, w), FloatMant(b, w))

\* Float::partial_cmp: "None" when unordered
FloatPartialCmp(a, b, w) ==
    IF FloatIsNaN(a, w) \/ FloatIsNaN(b, w) THEN "None"
    ELSE IF FloatIsZero(a, w) /\ FloatIsZero(b, w) THEN "Equal"
    ELSE IF FloatSign(a) # FloatSign(b) THEN (IF FloatSign(a) THEN "Less" ELSE "Greater")
    ELSE IF FloatSign(a) THEN Reverse(FloatCmpAbs(a, b, w))
    ELSE FloatCmpAbs(a, b, w)

\* size.sign_extend(bits) as i128: the value of the w-bit two's complement pattern
SignExtend(v, w) == IF v >= Pow2(w - 1) THEN v - Pow2(w) ELSE v

\* Const::eval_bits: the bits of an evaluated scalar constant
eval_bits(c) == c.bits

(***************************************************************************)
(* compare_const_vals: "Less", "Equal", "Greater" for Some(ordering),      *)
(* "None", and "Panic" when assert_eq!(a.ty(), b.ty()) fails.              *)
(***************************************************************************)
\* fast paths that leave only the floats to the slow path
CompareFastPathInts(a, b) ==
    IF a.ty.k = "Float" THEN "Slow"
    ELSE IF a.repr = "Val" /\ b.repr = "Val" THEN CmpBytes(a.bits, b.bits)
    ELSE IF a.repr = "Ty" /\ b.repr = "Ty" THEN CmpBytes(a.bits, b.bits)
    ELSE "Slow"

\* fast paths that take two type-level constants for incomparable
CompareFastPathTyOpaque(a, b) ==
    IF a.ty.k \in {"Float", "Int"} THEN "Slow"
    ELSE IF a.repr = "Val" /\ b.repr = "Val" THEN CmpBytes(a.bits, b.bits)
    ELSE IF a.repr = "Ty" /\ b.repr = "Ty" THEN "None"
    ELSE "Slow"

\* the two fast paths, "Slow" when neither decides
CompareFastPath(a, b) ==
    IF a.ty.k \in {"Float", "Int"} THEN "Slow"
    ELSE IF a.repr = "Val" /\ b.repr = "Val" THEN CmpBytes(a.bits, b.bits)
    ELSE IF a.repr = "Ty" /\ b.repr = "Ty" THEN CmpBytes(a.bits, b.bits)
    ELSE "Slow"

\* a slow path that orders the floats by their bits
CompareSlowPathFloatBits(a, b) ==
    CASE a.ty.k = "Int" ->
            CmpInt(SignExtend(BytesToNat(eval_bits(a)), a.ty.w),
                   SignExtend(BytesToNat(eval_bits(b)), a.ty.w))
      [] OTHER -> CmpBytes(eval_bits(a), eval_bits(b))

\* a slow path that sign-extends the first operand only
CompareSlowPathHalfSigned(a, b) ==
    CASE a.ty.k = "Float" -> FloatPartialCmp(eval_bits(a), eval_bits(b), a.ty.w)
      [] a.ty.k = "Int" ->
            CmpInt(SignExtend(BytesToNat(eval_bits(a)), a.ty.w), BytesToNat(eval_bits(b)))
      [] OTHER -> CmpBytes(eval_bits(a), eval_bits(b))

CompareSlowPath(a, b) ==
    LET ty == a.ty
        x == eval_bits(a)
        y == eval_bits(b)
    IN  CASE ty.k = "Float" -> FloatPartialCmp(x, y, ty.w)
          [] ty.k = "Int" ->
                CmpInt(SignExtend(BytesToNat(x), ty.w), SignExtend(BytesToNat(y), ty.w))
          [] OTHER -> CmpBytes(x, y)

compare_const_vals(a, b) ==
    IF a.ty # b.ty THEN "Panic"
    ELSE IF CompareFastPath(a, b) # "Slow" THEN CompareFastPath(a, b)
    ELSE CompareSlowPath(a, b)

(***************************************************************************)
(* The trace of a lowering: the diagnostics it emits (emit_err), the bugs  *)
(* it delays (delay_span_bug) and the calls it makes to the constant       *)
(* evaluation oracle and to the comparator, in order.  An ErrorGuaranteed  *)
(* is [by |-> "pass", n |-> i] for the i-th event of the trace, or         *)
(* [by |-> "prior", n |-> _] for a diagnostic of an earlier phase.         *)
(***************************************************************************)
Span(lo, hi) == [lo |-> lo, hi |-> hi]

Diag(kind, span) == [ev |-> "emit", kind |-> kind, span |-> span]

\* a delayed bug that is shown to the user at once
DelayedBugEmitted(msg, span) == Diag(msg, span)

DelayedBug(msg, span) == [ev |-> "delay_span_bug", kind |-> msg, span |-> span]

Call(fn, id, ret) == [ev |-> "call", kind |-> fn, id |-> id, ret |-> ret]

PassError(t) == [by |-> "pass", n |-> Len(t)]

PriorError(n) == [by |-> "prior", n |-> n]

\* a returned value v with the trace t; ok = FALSE: the call panicked
Ret(v, t) == [ok |-> TRUE, v |-> v, t |-> t]

Panic(t) == [ok |-> FALSE, v |-> NoValue, t |-> t]

None == <<>>

Some(x) == <<x>>

(***************************************************************************)
(* ADTs and name resolutions (Res).                                        *)
(***************************************************************************)
AdtDef(did, is_enum, nvariants) == [did |-> did, is_enum |-> is_enum, nvariants |-> nvariants]

NoAdt == AdtDef(0, FALSE, 0)
\* enum Option<T> { None, Some(T) }
OptionAdt == AdtDef(1, TRUE, 2)
\* struct Point
StructAdt == AdtDef(2, FALSE, 1)
\* enum Single { Only }
SingleAdt == AdtDef(3, TRUE, 1)

AdtTy(adt, args) == [k |-> "Adt", w |-> adt.did, args |-> args]

ErrorTy(n) == [k |-> "Error", w |-> n]

RefTy(ty) == [k |-> "Ref", w |-> 0, to |-> ty]

TupleTy(n) == [k |-> "Tuple", w |-> n]

SliceTy == [k |-> "Slice", w |-> 0]

ArrayTy(len) == [k |-> "Array", w |-> len]

\* Res: k is the DefKind (or the Res variant), adt the ADT that owns the
\* definition, idx the variant's index in it
Res(k, adt, idx) == [k |-> k, adt |-> adt, idx |-> idx]

LeafResKinds ==
    {"Struct", "CtorStruct", "Union", "TyAlias", "AssocTy", "SelfTyParam", "SelfTyAlias",
     "SelfCtor"}

\* the ADT of an ADT type
AdtDefOfTy(ty) == CHOOSE adt \in {OptionAdt, StructAdt, SingleAdt} : adt.did = ty.w

\* AdtDef::variant_of_res(res): the variant of adt_def that res names, None
\* for the panic of a resolution that names none.  A variant or a
\* constructor is looked up by its id among the variants of adt_def
\* (variant_with_id, variant_with_ctor_id: expect); a struct, a union, an
\* alias or Self stands for the one variant of an ADT that is no enum
\* (non_enum_variant: assert); any other resolution is a bug!.  nfields is
\* the number of fields of the variant found.
variant_of_res(adt_def, res, nfields) ==
    CASE res.k \in {"Variant", "CtorVariant", "CtorStruct"} ->
            IF res.adt.did = adt_def.did /\ res.idx < adt_def.nvariants
            THEN Some([fields_len |-> nfields]) ELSE None
      [] res.k \in {"Struct", "Union", "TyAlias", "AssocTy", "SelfTyParam", "SelfTyAlias",
                    "SelfCtor"} ->
            IF ~adt_def.is_enum THEN Some([fields_len |-> nfields]) ELSE None
      [] OTHER -> None

(***************************************************************************)
(* The external collaborators, as the specification describes them.        *)
(***************************************************************************)
\* lit_to_const(LitToConstInput { lit, ty, neg }): the literal's bits in `ty`,
\* wrapped to the type's width; negation is applied before wrapping
lit_to_const(lit, ty, neg) ==
    CASE lit.kind = "Err" -> [tag |-> "Reported", e |-> PriorError(lit.val)]
      [] lit.kind = "Int" /\ ty.k \in {"Int", "Uint"} ->
            [tag |-> "Ok",
             c |-> MkConst("Ty", ty,
                     NatToBytes((IF neg THEN Pow2(ty.w) - (lit.val % Pow2(ty.w)) ELSE lit.val)
                                    % Pow2(ty.w), SizeBytes(ty)))]
      [] lit.kind = "Float" /\ ty.k = "Float" /\ Len(lit.bits) = SizeBytes(ty) ->
            [tag |-> "Ok",
             c |-> MkConst("Ty", ty,
                     IF neg THEN <<(lit.bits[1] + 128) % 256>> \o Tail(lit.bits)
                     ELSE lit.bits)]
      [] lit.kind = "Char" /\ ty.k = "Char" ->
            [tag |-> "Ok", c |-> MkConst("Ty", ty, NatToBytes(lit.val, 4))]
      [] lit.kind = "Bool" /\ ty.k = "Bool" ->
            [tag |-> "Ok", c |-> MkConst("Ty", ty, <<lit.val>>)]
      [] OTHER -> [tag |-> "TypeError"]

MkPat(span, ty, kind) == [span |-> span, ty |-> ty, kind |-> kind]

\* const_to_pat: the decomposer; a scalar becomes a Constant, a constant of
\* a unit struct the Leaf of its (no) fields
const_to_pat(c, span) ==
    IF c.ty \in ScalarTys THEN MkPat(span, c.ty, [k |-> "Constant", value |-> c])
    ELSE MkPat(span, c.ty, [k |-> "Leaf", subpatterns |-> <<>>])

\* ty.numeric_min_val / numeric_max_val, then mir::Const::from_ty_const:
\* None for a type that is not numeric
numeric_min_val(ty) ==
    CASE ty.k = "Int" -> Some(MkConst("Val", ty, NatToBytes(Pow2(ty.w - 1), SizeBytes(ty))))
      [] ty.k = "Uint" -> Some(MkConst("Val", ty, NatToBytes(0, SizeBytes(ty))))
      [] ty.k = "Char" -> Some(MkConst("Val", ty, <<0, 0, 0, 0>>))
      [] ty = F32 -> Some(MkConst("Val", ty, <<255, 128, 0, 0>>))
      [] ty = F64 -> Some(MkConst("Val", ty, <<255, 240, 0, 0, 0, 0, 0, 0>>))
      [] OTHER -> None

numeric_max_val(ty) ==
    CASE ty.k = "Int" -> Some(MkConst("Val", ty, NatToBytes(Pow2(ty.w - 1) - 1, SizeBytes(ty))))
      [] ty.k = "Uint" -> Some(MkConst("Val", ty, NatToBytes(Pow2(ty.w) - 1, SizeBytes(ty))))
      [] ty.k = "Char" -> Some(MkConst("Val", ty, <<0, 16, 255, 255>>))
      [] ty = F32 -> Some(MkConst("Val", ty, <<127, 128, 0, 0>>))
      [] ty = F64 -> Some(MkConst("Val", ty, <<127, 240, 0, 0, 0, 0, 0, 0>>))
      [] OTHER -> None

\* user_args_applied_to_ty_of_hir_id: the user-provided type recorded for the
\* node, 0 when there is none
user_args_applied_to_ty_of_hir_id(node) ==
    IF node.user_ty = 0 THEN None ELSE Some(node.user_ty)

(***************************************************************************)
(* PatCtxt::lower_variant_or_leaf(res, hir_id, span, ty, subpatterns).     *)
(* `node` is the surface node: its hir_id and what typeck_results records  *)
(* for it.                                                                 *)
(***************************************************************************)
\* an ascription that is Covariant whatever the caller asks for
AscriptionCovariant(user_ty, span, inferred_ty, variance) ==
    [annotation |-> [user_ty |-> user_ty, span |-> span, inferred_ty |-> inferred_ty],
     variance |-> "Covariant"]

Ascription(user_ty, span, inferred_ty, variance) ==
    [annotation |-> [user_ty |-> user_ty, span |-> span, inferred_ty |-> inferred_ty],
     variance |-> variance]

AscribeUserType(ascription, subpattern) ==
    [k |-> "AscribeUserType", ascription |-> ascription, subpattern |-> subpattern]

ErrorKind(e) == [k |-> "Error", e |-> e]

\* the variant constructor is normalized to its variant
NormalizeRes(res) == IF res.k = "CtorVariant" THEN Res("Variant", res.adt, res.idx) ELSE res

\* one diagnostic for every resolution that is no pattern
UnresolvableDiagGeneric(res, span) == Diag("NonConstPath", span)

\* the diagnostic of a resolution that is no pattern
UnresolvableDiag(res, span) ==
    CASE res.k = "ConstParam" -> Diag("ConstParamInPattern", span)
      [] res.k = "Static" -> Diag("StaticInPattern", span)
      [] OTHER -> Diag("NonConstPath", span)

\* a user type that is dropped
WrapUserTyUnwrapped(kind, node, span, ty) == kind

\* the ascription wrapper of lines 466-479
WrapUserTy(kind, node, span, ty) ==
    LET user_ty == user_args_applied_to_ty_of_hir_id(node)
    IN  IF user_ty # None
        THEN AscribeUserType(Ascription(user_ty[1], span, node.ty, "Covariant"),
                             MkPat(span, ty, kind))
        ELSE kind

\* a lowering that tells a Variant from a Leaf by the number of variants
LowerVariantOrLeafByCount(res0, node, span, ty, subpatterns, t) ==
    IF NormalizeRes(res0).k = "Variant"
    THEN IF NormalizeRes(res0).adt.nvariants > 1
         THEN CASE ty.k \in {"Adt", "FnDef"} ->
                     Ret(WrapUserTy([k |-> "Variant", adt_def |-> NormalizeRes(res0).adt,
                                     args |-> ty.args,
                                     variant_index |-> NormalizeRes(res0).idx,
                                     subpatterns |-> subpatterns],
                                    node, span, ty), t)
                [] ty.k = "Error" -> Ret(ErrorKind(PriorError(ty.w)), t)
                [] OTHER -> Panic(t)
         ELSE Ret(WrapUserTy([k |-> "Leaf", subpatterns |-> subpatterns], node, span, ty), t)
    ELSE IF NormalizeRes(res0).k \in LeafResKinds
    THEN Ret(WrapUserTy([k |-> "Leaf", subpatterns |-> subpatterns], node, span, ty), t)
    ELSE Ret(WrapUserTy(ErrorKind(PassError(Append(t, UnresolvableDiag(NormalizeRes(res0), span)))),
                        node, span, ty),
             Append(t, UnresolvableDiag(NormalizeRes(res0), span)))

lower_variant_or_leaf(res0, node, span, ty, subpatterns, t) ==
    LET res == NormalizeRes(res0)
    IN  IF res.k = "Variant"
        THEN IF res.adt.is_enum
             THEN CASE ty.k \in {"Adt", "FnDef"} ->
                         Ret(WrapUserTy([k |-> "Variant", adt_def |-> res.adt, args |-> ty.args,
                                         variant_index |-> res.idx,
                                         subpatterns |-> subpatterns],
                                        node, span, ty), t)
                    [] ty.k = "Error" -> Ret(ErrorKind(PriorError(ty.w)), t)
                    [] OTHER -> Panic(t)
             ELSE Ret(WrapUserTy([k |-> "Leaf", subpatterns |-> subpatterns], node, span, ty), t)
        ELSE IF res.k \in LeafResKinds
        THEN Ret(WrapUserTy([k |-> "Leaf", subpatterns |-> subpatterns], node, span, ty), t)
        ELSE LET t1 == Append(t, UnresolvableDiag(res, span))
             IN  Ret(WrapUserTy(ErrorKind(PassError(t1)), node, span, ty), t1)

(***************************************************************************)
(* PatCtxt::lower_path(qpath, id, span).  `q` is the path node: its        *)
(* resolution, its type, and the oracle's answers for it: resolve          *)
(* (Instance::resolve: "Some", "None", "Err"), eval                        *)
(* (const_eval_global_id_for_typeck: "Valtree", "Opaque" for Ok(None),     *)
(* "TooGeneric", "Reported"), eval_raw (const_eval_global_id: "Ok",        *)
(* "TooGeneric", "Reported"), cbits (the value), and debug_assertions:     *)
(* whether the compiler that lowers it was built with debug assertions.    *)
(***************************************************************************)
\* a pattern of the kind a callee returned, its panic otherwise
PatOfKind(span, ty, r) == IF r.ok THEN Ret(MkPat(span, ty, r.v), r.t) ELSE r

lower_path(q, span, t) ==
    LET ty == q.ty
        res == q.res
        is_associated_const == res.k = "AssocConst"
    IN  IF res.k \notin {"Const", "AssocConst"}
        THEN PatOfKind(span, ty, lower_variant_or_leaf(res, q, span, ty, <<>>, t))
        ELSE LET t1 == Append(t, Call("Instance::resolve", q.hir_id, q.resolve))
             IN  CASE q.resolve = "None" ->
                        \* debug_assert!(is_associated_const)
                        IF q.debug_assertions /\ ~is_associated_const THEN Panic(t1)
                        ELSE
                        LET t2 == Append(t1, Diag("AssocConstInPattern", span))
                        IN  Ret(MkPat(span, ty, ErrorKind(PassError(t2))), t2)
                   [] q.resolve = "Err" ->
                        LET t2 == Append(t1, Diag("CouldNotEvalConstPattern", span))
                        IN  Ret(MkPat(span, ty, ErrorKind(PassError(t2))), t2)
                   [] OTHER ->
                        LET t2 == Append(t1, Call("const_eval_global_id_for_typeck",
                                                  q.hir_id, q.eval))
                            t3 == IF q.eval = "Opaque"
                                  THEN Append(t2, Call("const_eval_global_id", q.hir_id,
                                                       q.eval_raw))
                                  ELSE t2
                            const_ == MkConst(IF q.eval = "Valtree" THEN "Ty" ELSE "Val",
                                              ty, q.cbits)
                            pattern == const_to_pat(const_, span)
                        IN  CASE q.eval = "Opaque" /\ q.eval_raw # "Ok" -> Panic(t3)
                              [] q.eval \in {"Valtree", "Opaque"} ->
                                    IF ~is_associated_const THEN Ret(pattern, t3)
                                    ELSE IF q.user_ty # 0
                                    THEN Ret(MkPat(span, const_.ty,
                                                   AscribeUserType(
                                                       Ascription(q.user_ty, span, q.ty,
                                                                  "Contravariant"),
                                                       pattern)), t3)
                                    ELSE Ret(pattern, t3)
                              [] q.eval = "TooGeneric" ->
                                    LET t4 == Append(t3, Diag(
                                                  "ConstPatternDependsOnGenericParameter", span))
                                    IN  Ret(MkPat(span, ty, ErrorKind(PassError(t4))), t4)
                              [] OTHER ->
                                    LET t4 == Append(t3, Diag("CouldNotEvalConstPattern", span))
                                    IN  Ret(MkPat(span, ty, ErrorKind(PassError(t4))), t4)

(***************************************************************************)
(* PatCtxt::lower_inline_const(block, id, span).  `e` is the ConstBlock    *)
(* expression: body (the block's value expression), bty (the block's type),*)
(* eval (const_eval_resolve_for_typeck), eval_raw (const_eval_resolve),    *)
(* cbits (the value), err (the handle of a Reported error).                *)
(***************************************************************************)
\* the literal fast path's input, None when the body is no (negated) literal
InlineLitInput(body) ==
    IF body.kind = "Lit" THEN Some([lit |-> body.lit, neg |-> FALSE])
    ELSE IF body.kind = "Unary" /\ body.sub.kind = "Lit"
    THEN Some([lit |-> body.sub.lit, neg |-> TRUE])
    ELSE None

\* an evaluation whose every failure is answered with the catch-all diagnostic
InlineConstEvalCatchAll(e, span, t) ==
    IF e.eval = "Valtree"
    THEN Ret(const_to_pat(MkConst("Ty", e.bty, e.cbits), span).kind,
             Append(t, Call("const_eval_resolve_for_typeck", e.hir_id, e.eval)))
    ELSE IF e.eval_raw = "Ok"
    THEN Ret(const_to_pat(MkConst("Val", e.bty, e.cbits), span).kind,
             t \o <<Call("const_eval_resolve_for_typeck", e.hir_id, e.eval),
                    Call("const_eval_resolve", e.hir_id, e.eval_raw)>>)
    ELSE Ret(ErrorKind([by |-> "pass", n |-> Len(t) + 3]),
             t \o <<Call("const_eval_resolve_for_typeck", e.hir_id, e.eval),
                    Call("const_eval_resolve", e.hir_id, e.eval_raw),
                    Diag("CouldNotEvalConstPattern", span)>>)

\* an evaluation that reports a failure of its own on an error already reported
InlineConstEvalReporting(e, span, t) ==
    IF e.eval = "Valtree"
    THEN Ret(const_to_pat(MkConst("Ty", e.bty, e.cbits), span).kind,
             Append(t, Call("const_eval_resolve_for_typeck", e.hir_id, e.eval)))
    ELSE IF e.eval_raw = "Ok"
    THEN Ret(const_to_pat(MkConst("Val", e.bty, e.cbits), span).kind,
             t \o <<Call("const_eval_resolve_for_typeck", e.hir_id, e.eval),
                    Call("const_eval_resolve", e.hir_id, e.eval_raw)>>)
    ELSE Ret(ErrorKind([by |-> "pass", n |-> Len(t) + 3]),
             t \o <<Call("const_eval_resolve_for_typeck", e.hir_id, e.eval),
                    Call("const_eval_resolve", e.hir_id, e.eval_raw),
                    Diag(IF e.eval_raw = "TooGeneric"
                         THEN "ConstPatternDependsOnGenericParameter"
                         ELSE "CouldNotEvalConstPattern", span)>>)

\* an evaluation that propagates the first TooGeneric answer
InlineConstEvalPropagating(e, span, t) ==
    LET ty == e.bty
        t1 == Append(t, Call("const_eval_resolve_for_typeck", e.hir_id, e.eval))
    IN  IF e.eval = "Valtree"
        THEN Ret(const_to_pat(MkConst("Ty", ty, e.cbits), span).kind, t1)
        ELSE IF e.eval = "TooGeneric"
        THEN LET t3 == Append(t1, Diag("ConstPatternDependsOnGenericParameter", span))
             IN  Ret(ErrorKind(PassError(t3)), t3)
        ELSE LET t2 == Append(t1, Call("const_eval_resolve", e.hir_id, e.eval_raw))
             IN  CASE e.eval_raw = "Ok" ->
                        Ret(const_to_pat(MkConst("Val", ty, e.cbits), span).kind, t2)
                   [] e.eval_raw = "TooGeneric" ->
                        LET t3 == Append(t2, Diag("ConstPatternDependsOnGenericParameter",
                                                  span))
                        IN  Ret(ErrorKind(PassError(t3)), t3)
                   [] OTHER -> Ret(ErrorKind(PriorError(e.err)), t2)

\* the evaluation of the block as an unevaluated constant (lines 621-654)
InlineConstEval(e, span, t) ==
    LET ty == e.bty
        t1 == Append(t, Call("const_eval_resolve_for_typeck", e.hir_id, e.eval))
    IN  IF e.eval = "Valtree"
        THEN Ret(const_to_pat(MkConst("Ty", ty, e.cbits), span).kind, t1)
        ELSE LET t2 == Append(t1, Call("const_eval_resolve", e.hir_id, e.eval_raw))
             IN  CASE e.eval_raw = "Ok" ->
                        Ret(const_to_pat(MkConst("Val", ty, e.cbits), span).kind, t2)
                   [] e.eval_raw = "TooGeneric" ->
                        LET t3 == Append(t2, Diag("ConstPatternDependsOnGenericParameter",
                                                  span))
                        IN  Ret(ErrorKind(PassError(t3)), t3)
                   [] OTHER -> Ret(ErrorKind(PriorError(e.err)), t2)

\* lines 603-611: the literal fast path, None when it does not apply
InlineLitConst(lit_input, ty) ==
    IF lit_input = None THEN None
    ELSE LET OfConst(c) == IF c.tag = "Ok" THEN Some(c.c) ELSE None
         IN  OfConst(lit_to_const(lit_input[1].lit, ty, lit_input[1].neg))

lower_inline_const(e, span, t) ==
    LET OfLit(c) == IF c # None THEN Ret(const_to_pat(c[1], span).kind, t)
                    ELSE InlineConstEval(e, span, t)
    IN  OfLit(InlineLitConst(InlineLitInput(e.body), e.bty))

(***************************************************************************)
(* PatCtxt::lower_lit(expr): a PatKind.                                    *)
(***************************************************************************)
\* lines 679-687: the literal `lit` of the expression `expr`
\* a conversion whose type error degrades to an Error node
LowerLiteralDegrading(expr, lit, neg, t) ==
    LET OfConst(c) ==
            CASE c.tag = "Ok" -> Ret(const_to_pat(c.c, expr.span).kind, t)
              [] c.tag = "Reported" -> Ret(ErrorKind(c.e), t)
              [] OTHER -> Ret(ErrorKind(PriorError(0)), t)
    IN  OfConst(lit_to_const(lit, expr.ty, neg))

LowerLiteral(expr, lit, neg, t) ==
    LET OfConst(c) ==
            CASE c.tag = "Ok" -> Ret(const_to_pat(c.c, expr.span).kind, t)
              [] c.tag = "Reported" -> Ret(ErrorKind(c.e), t)
              [] OTHER -> Panic(t)
    IN  OfConst(lit_to_const(lit, expr.ty, neg))

lower_lit(expr, t) ==
    CASE expr.kind = "Path" ->
            LET KindOf(r) == IF r.ok THEN Ret(r.v.kind, r.t) ELSE r
            IN  KindOf(lower_path(expr, expr.span, t))
      [] expr.kind = "ConstBlock" -> lower_inline_const(expr, expr.span, t)
      [] expr.kind = "Lit" -> LowerLiteral(expr, expr.lit, FALSE, t)
      [] expr.kind = "Unary" ->
            IF expr.sub.kind = "Lit" THEN LowerLiteral(expr, expr.sub.lit, TRUE, t)
            ELSE Panic(t)
      [] OTHER -> Panic(t)

(***************************************************************************)
(* PatCtxt::lower_pattern_range_endpoint(expr): Ok((value, ascription)),   *)
(* both optional, or Err(e).                                               *)
(***************************************************************************)
Ok(v) == [is_ok |-> TRUE, v |-> v]

Err(e) == [is_ok |-> FALSE, e |-> e]

\* an endpoint that fails without delaying a bug
EndpointOfKindSilent(kind, ascr, span, t) ==
    IF kind.k = "Constant" THEN Ret(Ok([value |-> Some(kind.value), ascr |-> ascr]), t)
    ELSE Ret(Err(PassError(t)), t)

\* lines 103-111: the endpoint of a peeled kind
EndpointOfKind(kind, ascr, span, t) ==
    IF kind.k = "Constant" THEN Ret(Ok([value |-> Some(kind.value), ascr |-> ascr]), t)
    ELSE LET t1 == Append(t, DelayedBug("bad range pattern endpoint", span))
         IN  Ret(Err(PassError(t1)), t1)

\* lines 96-102: the kind lower_lit returned, an ascription peeled off
PeelAscription(r, span) ==
    IF ~r.ok THEN r
    ELSE IF r.v.k = "AscribeUserType"
    THEN EndpointOfKind(r.v.subpattern.kind, Some(r.v.ascription), span, r.t)
    ELSE EndpointOfKind(r.v, None, span, r.t)

lower_pattern_range_endpoint(expr, t) ==
    IF expr = None THEN Ret(Ok([value |-> None, ascr |-> None]), t)
    ELSE PeelAscription(lower_lit(expr[1], Append(t, Call("lower_lit", expr[1].hir_id, ""))),
                        expr[1].span)

(***************************************************************************)
(* PatCtxt::error_on_literal_overflow(expr, ty): Ok(()) or Err(e).         *)
(***************************************************************************)
signed_int_min(ty) == 0 - Pow2(ty.w - 1)

signed_int_max(ty) == Pow2(ty.w - 1) - 1

unsigned_int_max(ty) == Pow2(ty.w) - 1

LiteralOutOfRange(span, ty, min, max) ==
    [ev |-> "emit", kind |-> "LiteralOutOfRange", span |-> span, ty |-> ty,
     min |-> min, max |-> max]

\* a check that allows max + 1 to a literal that is not negated as well
LiteralOverflowLenient(expr, negated, span, ty, min, max, t) ==
    IF expr.kind # "Lit" THEN Ret(Ok(NoValue), t)
    ELSE IF expr.lit.kind # "Int" THEN Ret(Ok(NoValue), t)
    ELSE IF ty.k \notin {"Int", "Uint"} THEN Ret(Ok(NoValue), t)
    ELSE IF expr.lit.val > max + 1
    THEN LET t1 == Append(t, LiteralOutOfRange(span, ty, min, max))
         IN  Ret(Err(PassError(t1)), t1)
    ELSE Ret(Ok(NoValue), t)

\* a check that takes the magnitude of a negated literal for its value
LiteralOverflowStrict(expr, negated, span, ty, min, max, t) ==
    IF expr.kind # "Lit" THEN Ret(Ok(NoValue), t)
    ELSE IF expr.lit.kind # "Int" THEN Ret(Ok(NoValue), t)
    ELSE IF ty.k \notin {"Int", "Uint"} THEN Ret(Ok(NoValue), t)
    ELSE IF expr.lit.val > max
    THEN LET t1 == Append(t, LiteralOutOfRange(span, ty, min, max))
         IN  Ret(Err(PassError(t1)), t1)
    ELSE Ret(Ok(NoValue), t)

\* lines 137-164: the check of the literal `expr`, negated or not
LiteralOverflow(expr, negated, span, ty, min, max, t) ==
    IF expr.kind # "Lit" THEN Ret(Ok(NoValue), t)
    ELSE IF expr.lit.kind # "Int" THEN Ret(Ok(NoValue), t)
    ELSE IF ty.k \notin {"Int", "Uint"} THEN Ret(Ok(NoValue), t)
    ELSE IF (negated /\ expr.lit.val > max + 1) \/ (~negated /\ expr.lit.val > max)
    THEN LET t1 == Append(t, LiteralOutOfRange(span, ty, min, max))
         IN  Ret(Err(PassError(t1)), t1)
    ELSE Ret(Ok(NoValue), t)

error_on_literal_overflow(expr0, ty, t) ==
    IF expr0 = None THEN Ret(Ok(NoValue), t)
    ELSE LiteralOverflow(IF expr0[1].kind = "Unary" THEN expr0[1].sub ELSE expr0[1],
                         expr0[1].kind = "Unary", expr0[1].span, ty,
                         IF ty.k = "Int" THEN signed_int_min(ty) ELSE 0,
                         IF ty.k = "Int" THEN signed_int_max(ty) ELSE unsigned_int_max(ty), t)

(***************************************************************************)
(* PatCtxt::lower_pattern_range(lo_expr, hi_expr, end, ty, span):          *)
(* Ok(kind) or Err(e).  `untaught` is what the session (self.tcx.sess)     *)
(* holds for the call: -Z teach is on and E0030 has not been taught.       *)
(***************************************************************************)
RangeKind(lo, hi, end) == [k |-> "Range", lo |-> lo, hi |-> hi, end |-> end]

ConstantKind(value) == [k |-> "Constant", value |-> value]

\* a range that keeps `lo..=lo` a Range
RangeOfCmpNoConstant(lo, hi, end, cmp) ==
    CASE end = "Excluded" /\ cmp = "Less" -> Some(RangeKind(lo, hi, end))
      [] end = "Included" /\ cmp \in {"Equal", "Less"} -> Some(RangeKind(lo, hi, end))
      [] OTHER -> None

\* a range that admits the empty `lo..lo`
RangeOfCmpEmptyExclusive(lo, hi, end, cmp) ==
    CASE end = "Excluded" /\ cmp \in {"Equal", "Less"} -> Some(RangeKind(lo, hi, end))
      [] end = "Included" /\ cmp = "Equal" -> Some(ConstantKind(lo))
      [] end = "Included" /\ cmp = "Less" -> Some(RangeKind(lo, hi, end))
      [] OTHER -> None

\* lines 197-208: the kind of a well-ordered range, None otherwise
RangeOfCmp(lo, hi, end, cmp) ==
    CASE end = "Excluded" /\ cmp = "Less" -> Some(RangeKind(lo, hi, end))
      [] end = "Included" /\ cmp = "Equal" -> Some(ConstantKind(lo))
      [] end = "Included" /\ cmp = "Less" -> Some(RangeKind(lo, hi, end))
      [] OTHER -> None

\* Session::teach(&error_code!(E0030)): -Z teach is on and the session's
\* handler has not yet been asked to teach the code (Handler::must_teach
\* puts the code into taught_diagnostics and answers whether it was new).
\* `untaught`: -Z teach is on and nothing but the events of t has asked.
teach(untaught, t) ==
    /\ untaught
    /\ ~\E j \in 1..Len(t) :
          /\ t[j].ev = "emit" /\ t[j].kind = "LowerRangeBoundMustBeLessThanOrEqualToUpper"
          /\ t[j].teach

\* the diagnostic of `lo..=hi` with lo > hi, with the note that teaches it
LowerRangeBoundMustBeLessThanOrEqualToUpper(span, teach_note) ==
    [ev |-> "emit", kind |-> "LowerRangeBoundMustBeLessThanOrEqualToUpper", span |-> span,
     teach |-> teach_note]

\* a diagnostic chosen by what the session teaches: that of the inclusive
\* range only with its note
MalformedRangeByTeach(lo_expr, hi_expr, end, ty, span, untaught, t) ==
    LET Ordering(t2) ==
            LET t3 == Append(t2, IF end = "Included" /\ teach(untaught, t2)
                                 THEN LowerRangeBoundMustBeLessThanOrEqualToUpper(span, TRUE)
                                 ELSE Diag("LowerRangeBoundMustBeLessThanUpper", span))
            IN  Ret(Err(PassError(t3)), t3)
        AfterHi(o2) == IF ~o2.v.is_ok THEN o2 ELSE Ordering(o2.t)
        AfterLo(o1) == IF ~o1.v.is_ok THEN o1
                       ELSE AfterHi(error_on_literal_overflow(hi_expr, ty, o1.t))
    IN  AfterLo(error_on_literal_overflow(lo_expr, ty, t))

\* the upper bound's literal checked before the lower bound's
MalformedRangeHiFirst(lo_expr, hi_expr, end, ty, span, untaught, t) ==
    LET Ordering(t2) ==
            LET t3 == Append(t2, IF end = "Included"
                                 THEN LowerRangeBoundMustBeLessThanOrEqualToUpper(
                                          span, teach(untaught, t2))
                                 ELSE Diag("LowerRangeBoundMustBeLessThanUpper", span))
            IN  Ret(Err(PassError(t3)), t3)
        AfterLo(o2) == IF ~o2.v.is_ok THEN o2 ELSE Ordering(o2.t)
        AfterHi(o1) == IF ~o1.v.is_ok THEN o1
                       ELSE AfterLo(error_on_literal_overflow(lo_expr, ty, o1.t))
    IN  AfterHi(error_on_literal_overflow(hi_expr, ty, t))

\* lines 210-226: the diagnostic of a range that is not well ordered
MalformedRange(lo_expr, hi_expr, end, ty, span, untaught, t) ==
    LET Ordering(t2) ==
            LET t3 == Append(t2, IF end = "Included"
                                 THEN LowerRangeBoundMustBeLessThanOrEqualToUpper(
                                          span, teach(untaught, t2))
                                 ELSE Diag("LowerRangeBoundMustBeLessThanUpper", span))
            IN  Ret(Err(PassError(t3)), t3)
        AfterHi(o2) == IF ~o2.v.is_ok THEN o2 ELSE Ordering(o2.t)
        AfterLo(o1) == IF ~o1.v.is_ok THEN o1
                       ELSE AfterHi(error_on_literal_overflow(hi_expr, ty, o1.t))
    IN  AfterLo(error_on_literal_overflow(lo_expr, ty, t))

\* ascriptions put on the range, each on a pattern of its endpoint's span
WrapAscriptionsEndpointSpan(kind, lo_ascr, hi_ascr, span, ty) ==
    LET Outer(k1) == IF hi_ascr # None
                     THEN AscribeUserType(hi_ascr[1], MkPat(hi_ascr[1].annotation.span, ty, k1))
                     ELSE k1
    IN  Outer(IF lo_ascr # None
              THEN AscribeUserType(lo_ascr[1], MkPat(lo_ascr[1].annotation.span, ty, kind))
              ELSE kind)

\* ascriptions put on the range the upper bound's first
WrapAscriptionsHiFirst(kind, lo_ascr, hi_ascr, span, ty) ==
    LET Outer(k1) == IF lo_ascr # None
                     THEN AscribeUserType(lo_ascr[1], MkPat(span, ty, k1)) ELSE k1
    IN  Outer(IF hi_ascr # None
              THEN AscribeUserType(hi_ascr[1], MkPat(span, ty, kind)) ELSE kind)

\* lines 232-239: the endpoints' ascriptions, put on the range
WrapAscriptions(kind, lo_ascr, hi_ascr, span, ty) ==
    LET k1 == IF lo_ascr # None
              THEN AscribeUserType(lo_ascr[1], MkPat(span, ty, kind)) ELSE kind
    IN  IF hi_ascr # None THEN AscribeUserType(hi_ascr[1], MkPat(span, ty, k1)) ELSE k1

\* a lowering that lowers the upper bound whatever became of the lower bound
LowerPatternRangeBothEndpoints(lo_expr, hi_expr, end, ty, span, untaught, t) ==
    IF lo_expr = None /\ hi_expr = None
    THEN LET t1 == Append(t, DelayedBug("twice-open range pattern", span))
         IN  Ret(Err(PassError(t1)), t1)
    ELSE
    LET Ordered(kind, lo_ascr, hi_ascr, t1) ==
            IF kind = None THEN MalformedRange(lo_expr, hi_expr, end, ty, span, untaught, t1)
            ELSE Ret(Ok(WrapAscriptions(kind[1], lo_ascr, hi_ascr, span, ty)), t1)
        Compared(lo, hi, cmp, lo_ascr, hi_ascr, t0) ==
            Ordered(RangeOfCmp(lo, hi, end, cmp), lo_ascr, hi_ascr,
                    Append(t0, Call("compare_const_vals", 0, cmp)))
        Filled(lo_fill, hi_fill, lo_ascr, hi_ascr, t0) ==
            IF lo_fill = None \/ hi_fill = None THEN Panic(t0)
            ELSE IF lo_fill[1].ty # ty \/ hi_fill[1].ty # ty THEN Panic(t0)
            ELSE Compared(lo_fill[1], hi_fill[1], compare_const_vals(lo_fill[1], hi_fill[1]),
                          lo_ascr, hi_ascr, t0)
        WithHi(l, h) ==
            IF ~h.ok \/ ~h.v.is_ok THEN h
            ELSE Filled(IF l.v.v.value # None THEN l.v.v.value ELSE numeric_min_val(ty),
                        IF h.v.v.value # None THEN h.v.v.value ELSE numeric_max_val(ty),
                        l.v.v.ascr, h.v.v.ascr, h.t)
        AfterBoth(l, h) == IF ~h.ok THEN h ELSE Ret(l.v, h.t)
        WithLo(l) ==
            IF ~l.ok THEN l
            ELSE IF ~l.v.is_ok THEN AfterBoth(l, lower_pattern_range_endpoint(hi_expr, l.t))
            ELSE WithHi(l, lower_pattern_range_endpoint(hi_expr, l.t))
    IN  WithLo(lower_pattern_range_endpoint(lo_expr, t))

\* lines 167-241
lower_pattern_range(lo_expr, hi_expr, end, ty, span, untaught, t) ==
    IF lo_expr = None /\ hi_expr = None
    THEN LET t1 == Append(t, DelayedBug("twice-open range pattern", span))
         IN  Ret(Err(PassError(t1)), t1)
    ELSE
    LET Ordered(kind, lo_ascr, hi_ascr, t1) ==
            IF kind = None THEN MalformedRange(lo_expr, hi_expr, end, ty, span, untaught, t1)
            ELSE Ret(Ok(WrapAscriptions(kind[1], lo_ascr, hi_ascr, span, ty)), t1)
        Compared(lo, hi, cmp, lo_ascr, hi_ascr, t0) ==
            Ordered(RangeOfCmp(lo, hi, end, cmp), lo_ascr, hi_ascr,
                    Append(t0, Call("compare_const_vals", 0, cmp)))
        Filled(lo_fill, hi_fill, lo_ascr, hi_ascr, t0) ==
            IF lo_fill = None \/ hi_fill = None THEN Panic(t0)
            ELSE IF lo_fill[1].ty # ty \/ hi_fill[1].ty # ty THEN Panic(t0)
            ELSE Compared(lo_fill[1], hi_fill[1], compare_const_vals(lo_fill[1], hi_fill[1]),
                          lo_ascr, hi_ascr, t0)
        WithHi(l, h) ==
            IF ~h.ok \/ ~h.v.is_ok THEN h
            ELSE Filled(IF l.v.v.value # None THEN l.v.v.value ELSE numeric_min_val(ty),
                        IF h.v.v.value # None THEN h.v.v.value ELSE numeric_max_val(ty),
                        l.v.v.ascr, h.v.v.ascr, h.t)
        WithLo(l) ==
            IF ~l.ok \/ ~l.v.is_ok THEN l
            ELSE WithHi(l, lower_pattern_range_endpoint(hi_expr, l.t))
    IN  WithLo(lower_pattern_range_endpoint(lo_expr, t))

(***************************************************************************)
(* PatCtxt::lower_pattern and lower_pattern_unadjusted.  A surface pattern *)
(* (hir::Pat) carries what typeck_results records for its hir_id: ty       *)
(* (node_type), adj (pat_adjustments), and by kind bm (pat_binding_modes), *)
(* res (qpath_res), user_ty (user_provided_types), nfields (the fields of  *)
(* the variant of the type's ADT that res names), and field (field_index)  *)
(* for a struct field.                                                     *)
(***************************************************************************)
RECURSIVE lower_pattern(_, _)
RECURSIVE lower_pattern_unadjusted(_, _)
RECURSIVE lower_patterns(_, _)
RECURSIVE LowerTupleSubpatsFrom(_, _, _, _, _)
RECURSIVE LowerStructFields(_, _)

DerefKind(subpattern) == [k |-> "Deref", subpattern |-> subpattern]

\* a fold over the adjustments, first first: the first adjustment innermost
RECURSIVE WrapAdjustmentsForward(_, _)
WrapAdjustmentsForward(unadjusted_pat, adjustments) ==
    IF adjustments = <<>> THEN unadjusted_pat
    ELSE WrapAdjustmentsForward(MkPat(unadjusted_pat.span, Head(adjustments),
                                      DerefKind(unadjusted_pat)),
                                Tail(adjustments))

\* lines 75-85: the fold over the adjustments, last first
RECURSIVE WrapAdjustments(_, _)
WrapAdjustments(unadjusted_pat, adjustments) ==
    IF adjustments = <<>> THEN unadjusted_pat
    ELSE LET pat == WrapAdjustments(unadjusted_pat, Tail(adjustments))
         IN  MkPat(pat.span, Head(adjustments), DerefKind(pat))

lower_pattern(pat, t) ==
    LET Adjusted(r) == IF ~r.ok THEN r ELSE Ret(WrapAdjustments(r.v, pat.adj), r.t)
    IN  Adjusted(lower_pattern_unadjusted(pat, t))

\* the element `v` put before the lowered rest `r`
Cons(v, r) == IF ~r.ok THEN r ELSE Ret(<<v>> \o r.v, r.t)

\* a lowering of a list that leaves out the elements that are Error nodes
LowerPatternsSkipErrors(pats, t) ==
    IF pats = <<>> THEN Ret(<<>>, t)
    ELSE LET Rest(h) ==
                 IF ~h.ok THEN h
                 ELSE IF h.v.kind.k = "Error" THEN lower_patterns(Tail(pats), h.t)
                 ELSE Cons(h.v, lower_patterns(Tail(pats), h.t))
         IN  Rest(lower_pattern(Head(pats), t))

lower_patterns(pats, t) ==
    IF pats = <<>> THEN Ret(<<>>, t)
    ELSE LET Rest(h) == IF ~h.ok THEN h ELSE Cons(h.v, lower_patterns(Tail(pats), h.t))
         IN  Rest(lower_pattern(Head(pats), t))

lower_opt_pattern(pat, t) ==
    IF pat = None THEN Ret(None, t)
    ELSE LET Opt1(r) == IF ~r.ok THEN r ELSE Ret(Some(r.v), r.t)
         IN  Opt1(lower_pattern(pat[1], t))

FieldPat(field, pattern) == [field |-> field, pattern |-> pattern]

\* enumerate_and_adjust: the field index of the i-th (from 0) sub-pattern
\* of `actual_len`, around the gap of a rest marker at gap_pos
AdjustedIndex(i, actual_len, expected_len, gap_pos) ==
    LET gap == IF gap_pos = None THEN expected_len ELSE gap_pos[1]
    IN  IF i < gap THEN i ELSE i + (expected_len - actual_len)

\* lower_tuple_subpats, from the i-th sub-pattern on
LowerTupleSubpatsFrom(pats, i, expected_len, gap_pos, t) ==
    IF i >= Len(pats) THEN Ret(<<>>, t)
    ELSE LET Rest(h) ==
                 IF ~h.ok THEN h
                 ELSE Cons(FieldPat(AdjustedIndex(i, Len(pats), expected_len, gap_pos), h.v),
                           LowerTupleSubpatsFrom(pats, i + 1, expected_len, gap_pos, h.t))
         IN  Rest(lower_pattern(pats[i + 1], t))

lower_tuple_subpats(pats, expected_len, gap_pos, t) ==
    LowerTupleSubpatsFrom(pats, 0, expected_len, gap_pos, t)

\* lines 334-340: the fields of a struct pattern
LowerStructFields(fields, t) ==
    IF fields = <<>> THEN Ret(<<>>, t)
    ELSE LET Rest(h) ==
                 IF ~h.ok THEN h
                 ELSE Cons(FieldPat(Head(fields).field, h.v),
                           LowerStructFields(Tail(fields), h.t))
         IN  Rest(lower_pattern(Head(fields).pat, t))

\* a kind built without the assertion on the array's length
SliceOrArrayKindUnchecked(ty, prefix, slice, suffix, t) ==
    CASE ty.k = "Slice" ->
            Ret([k |-> "Slice", prefix |-> prefix, slice |-> slice, suffix |-> suffix], t)
      [] ty.k = "Array" ->
            Ret([k |-> "Array", prefix |-> prefix, slice |-> slice, suffix |-> suffix], t)
      [] OTHER -> Panic(t)

\* lines 387-398: the kind by the type of the node
SliceOrArrayKind(ty, prefix, slice, suffix, t) ==
    CASE ty.k = "Slice" ->
            Ret([k |-> "Slice", prefix |-> prefix, slice |-> slice, suffix |-> suffix], t)
      [] ty.k = "Array" ->
            IF ty.w >= Len(prefix) + Len(suffix)
            THEN Ret([k |-> "Array", prefix |-> prefix, slice |-> slice, suffix |-> suffix], t)
            ELSE Panic(t)
      [] OTHER -> Panic(t)

slice_or_array_pattern(span, ty, prefix0, slice0, suffix0, t) ==
    LET WithSuffix(prefix, slice, suffix) ==
            IF ~suffix.ok THEN suffix
            ELSE SliceOrArrayKind(ty, prefix.v, slice.v, suffix.v, suffix.t)
        WithSlice(prefix, slice) ==
            IF ~slice.ok THEN slice
            ELSE WithSuffix(prefix, slice, lower_patterns(suffix0, slice.t))
        WithPrefix(prefix) ==
            IF ~prefix.ok THEN prefix
            ELSE WithSlice(prefix, lower_opt_pattern(slice0, prefix.t))
    IN  WithPrefix(lower_patterns(prefix0, t))

\* Span::find_ancestor_inside, then with_hi: the binding's span ends at the
\* identifier when the identifier lies in it
BindingSpan(span, ident_span) ==
    IF span.lo <= ident_span.lo /\ ident_span.hi <= span.hi
    THEN Span(span.lo, ident_span.hi)
    ELSE span

\* a binding mode whose by-reference bindings keep the recorded mutability
BindingModeOfKeepMut(bm) ==
    CASE bm.by = "Value" -> [mutability |-> bm.mutbl, mode |-> "ByValue"]
      [] bm.by = "Reference" /\ bm.mutbl = "Mut" ->
            [mutability |-> "Mut", mode |-> "ByRef(Mut)"]
      [] OTHER -> [mutability |-> "Not", mode |-> "ByRef(Shared)"]

\* lines 289-298: (mutability, mode) of a binding mode
BindingModeOf(bm) ==
    CASE bm.by = "Value" -> [mutability |-> bm.mutbl, mode |-> "ByValue"]
      [] bm.by = "Reference" /\ bm.mutbl = "Mut" ->
            [mutability |-> "Not", mode |-> "ByRef(Mut)"]
      [] OTHER -> [mutability |-> "Not", mode |-> "ByRef(Shared)"]

\* lines 311-319, 348: the binding of mode m over its lowered sub-pattern
BindingOfSub(pat, m, sub) ==
    LET span == BindingSpan(pat.span, pat.ident.span)
        var_ty == pat.ty
        ty == IF pat.bm.by = "Reference" THEN pat.ty.to ELSE pat.ty
    IN  IF ~sub.ok THEN sub
        ELSE Ret(MkPat(span, ty,
                       [k |-> "Binding", mutability |-> m.mutability, mode |-> m.mode,
                        name |-> pat.ident.name, var |-> pat.id, ty |-> var_ty,
                        subpattern |-> sub.v, is_primary |-> pat.id = pat.hir_id]),
                 sub.t)

\* lines 279-320: the Binding arm; the node, not only its kind
LowerBinding(pat, t) ==
    IF pat.bm.by = "Missing" THEN Panic(t)
    ELSE IF pat.bm.by = "Reference" /\ pat.ty.k # "Ref" THEN Panic(t)
    ELSE BindingOfSub(pat, BindingModeOf(pat.bm), lower_opt_pattern(pat.sub, t))

\* the arms of lower_pattern_unadjusted that build a kind for the node
\* unwrap_or_else(PatKind::Error) of line 271
RangeOrError(r) ==
    IF ~r.ok THEN r
    ELSE IF r.v.is_ok THEN Ret(r.v.v, r.t)
    ELSE Ret(ErrorKind(r.v.e), r.t)

\* the kind built from the lowered sub-patterns `r` of the node
KindOfSubpatterns(pat, r) ==
    IF ~r.ok THEN r
    ELSE CASE pat.kind \in {"Ref", "Box"} -> Ret(DerefKind(r.v), r.t)
           [] pat.kind = "Tuple" -> Ret([k |-> "Leaf", subpatterns |-> r.v], r.t)
           [] pat.kind \in {"TupleStruct", "Struct"} ->
                 lower_variant_or_leaf(pat.res, pat, pat.span, pat.ty, r.v, r.t)
           [] pat.kind = "Or" -> Ret([k |-> "Or", pats |-> r.v], r.t)

\* the arms of lower_pattern_unadjusted that build a kind for the node
LowerKind(pat, t) ==
    CASE pat.kind = "Wild" -> Ret([k |-> "Wild"], t)
      [] pat.kind = "Lit" -> lower_lit(pat.value, t)
      [] pat.kind = "Range" ->
            RangeOrError(lower_pattern_range(pat.lo, pat.hi, pat.end, pat.ty, pat.span,
                                             pat.untaught, t))
      [] pat.kind \in {"Ref", "Box"} -> KindOfSubpatterns(pat, lower_pattern(pat.sub, t))
      [] pat.kind = "Slice" ->
            slice_or_array_pattern(pat.span, pat.ty, pat.prefix, pat.slice, pat.suffix, t)
      [] pat.kind = "Tuple" ->
            IF pat.ty.k # "Tuple" THEN Panic(t)
            ELSE KindOfSubpatterns(pat, lower_tuple_subpats(pat.pats, pat.ty.w, pat.ddpos, t))
      [] pat.kind = "TupleStruct" ->
            IF pat.ty.k # "Adt" THEN Panic(t)
            ELSE LET variant_def == variant_of_res(AdtDefOfTy(pat.ty), pat.res, pat.nfields)
                 IN  IF variant_def = None THEN Panic(t)
                     ELSE KindOfSubpatterns(pat,
                                            lower_tuple_subpats(pat.pats,
                                                                variant_def[1].fields_len,
                                                                pat.ddpos, t))
      [] pat.kind = "Struct" -> KindOfSubpatterns(pat, LowerStructFields(pat.fields, t))
      [] pat.kind = "Or" -> KindOfSubpatterns(pat, lower_patterns(pat.pats, t))

lower_pattern_unadjusted(pat, t) ==
    CASE pat.kind = "Path" -> lower_path(pat, pat.span, t)
      [] pat.kind = "Binding" -> LowerBinding(pat, t)
      [] OTHER -> PatOfKind(pat.span, pat.ty, LowerKind(pat, t))

\* pat_from_hir(tcx, param_env, typeck_results, pat)
pat_from_hir(pat) == lower_pattern(pat, <<>>)

(***************************************************************************)
(* PatternFoldable / PatternFolder with the default methods: fold_with of  *)
(* a Pat is fold_pattern, of a PatKind fold_pattern_kind, and both default *)
(* to super_fold_with.                                                     *)
(***************************************************************************)
RECURSIVE fold_pattern(_)
RECURSIVE fold_pattern_kind(_)

\* ClonePatternFoldableImpls: super_fold_with of a leaf type is Clone::clone
Clone(x) == x

\* Option<T>::super_fold_with, T a boxed pattern
FoldOption(o) == IF o = None THEN None ELSE Some(fold_pattern(o[1]))

\* Vec<T> / Box<[T]>::super_fold_with over patterns
FoldPats(ps) == [i \in 1..Len(ps) |-> fold_pattern(ps[i])]

\* FieldPat::super_fold_with
FoldFieldPat(fp) == FieldPat(Clone(fp.field), fold_pattern(fp.pattern))

FoldFieldPats(fps) == [i \in 1..Len(fps) |-> FoldFieldPat(fps[i])]

\* a fold of a binding that loses is_primary
FoldBindingNotPrimary(kind) ==
    [k |-> "Binding", mutability |-> Clone(kind.mutability), mode |-> Clone(kind.mode),
     name |-> Clone(kind.name), var |-> Clone(kind.var), ty |-> Clone(kind.ty),
     subpattern |-> FoldOption(kind.subpattern), is_primary |-> FALSE]

\* lines 799-809: the Binding arm
FoldBinding(kind) ==
    [k |-> "Binding", mutability |-> Clone(kind.mutability), mode |-> Clone(kind.mode),
     name |-> Clone(kind.name), var |-> Clone(kind.var), ty |-> Clone(kind.ty),
     subpattern |-> FoldOption(kind.subpattern), is_primary |-> kind.is_primary]

\* lines 792-798: the AscribeUserType arm
FoldAscribeUserType(kind) ==
    [k |-> "AscribeUserType",
     ascription |-> [annotation |-> Clone(kind.ascription.annotation),
                     variance |-> kind.ascription.variance],
     subpattern |-> fold_pattern(kind.subpattern)]

\* Pat::super_fold_with
fold_pattern(pattern) ==
    [span |-> Clone(pattern.span), ty |-> Clone(pattern.ty),
     kind |-> fold_pattern_kind(pattern.kind)]

\* PatKind::super_fold_with
fold_pattern_kind(kind) ==
    CASE kind.k = "Wild" -> [k |-> "Wild"]
      [] kind.k = "Error" -> [k |-> "Error", e |-> kind.e]
      [] kind.k = "AscribeUserType" -> FoldAscribeUserType(kind)
      [] kind.k = "Binding" -> FoldBinding(kind)
      [] kind.k = "Variant" ->
            [k |-> "Variant", adt_def |-> Clone(kind.adt_def), args |-> Clone(kind.args),
             variant_index |-> kind.variant_index,
             subpatterns |-> FoldFieldPats(kind.subpatterns)]
      [] kind.k = "Leaf" -> [k |-> "Leaf", subpatterns |-> FoldFieldPats(kind.subpatterns)]
      [] kind.k = "Deref" -> [k |-> "Deref", subpattern |-> fold_pattern(kind.subpattern)]
      [] kind.k = "Constant" -> [k |-> "Constant", value |-> kind.value]
      [] kind.k = "Range" -> [k |-> "Range", lo |-> kind.lo, hi |-> kind.hi, end |-> kind.end]
      [] kind.k = "Slice" ->
            [k |-> "Slice", prefix |-> FoldPats(kind.prefix), slice |-> FoldOption(kind.slice),
             suffix |-> FoldPats(kind.suffix)]
      [] kind.k = "Array" ->
            [k |-> "Array", prefix |-> FoldPats(kind.prefix), slice |-> FoldOption(kind.slice),
             suffix |-> FoldPats(kind.suffix)]
      [] kind.k = "Or" -> [k |-> "Or", pats |-> FoldPats(kind.pats)]

(***************************************************************************)
(* Surface expressions (hir::Expr) in literal position.  Each carries what *)
(* typeck_results records for it (ty: expr_ty / node_type, user_ty) and,   *)
(* for a path or a const block, the oracle's answers.                      *)
(***************************************************************************)
Lit(kind, val) == [kind |-> kind, val |-> val]

\* a float literal, with the bits it parses to
FloatLit(bits) == [kind |-> "Float", val |-> 0, bits |-> bits]

LitExpr(id, span, ty, lit) ==
    [kind |-> "Lit", hir_id |-> id, span |-> span, ty |-> ty, lit |-> lit]

NegExpr(id, span, ty, sub) ==
    [kind |-> "Unary", hir_id |-> id, span |-> span, ty |-> ty, sub |-> sub]

\* an expression that is no literal, path or const block
CallExpr(id, span, ty) == [kind |-> "Call", hir_id |-> id, span |-> span, ty |-> ty]

PathExpr(id, span, ty, res, resolve, eval, eval_raw, cbits, user_ty) ==
    [kind |-> "Path", hir_id |-> id, span |-> span, ty |-> ty, res |-> res,
     resolve |-> resolve, eval |-> eval, eval_raw |-> eval_raw, cbits |-> cbits,
     user_ty |-> user_ty, debug_assertions |-> FALSE]

ConstBlockExpr(id, span, ty, body, eval, eval_raw, cbits, err) ==
    [kind |-> "ConstBlock", hir_id |-> id, span |-> span, ty |-> ty, body |-> body,
     bty |-> ty, eval |-> eval, eval_raw |-> eval_raw, cbits |-> cbits, err |-> err]

\* the integer literals tried at a type of width w: around 0, around the
\* signed maximum and around the unsigned maximum
LitValsOf(ty) ==
    {0, 1, 2, Pow2(ty.w - 1) - 1, Pow2(ty.w - 1), Pow2(ty.w - 1) + 1, Pow2(ty.w - 1) + 2,
     Pow2(ty.w) - 1, Pow2(ty.w)}

\* the literals of a float type: 0, the least subnormal, 1, 1.5, 2
FloatLitsOf(ty) ==
    IF ty = F32
    THEN {<<0, 0, 0, 0>>, <<0, 0, 0, 1>>, <<63, 128, 0, 0>>, <<63, 192, 0, 0>>, <<64, 0, 0, 0>>}
    ELSE {<<0, 0, 0, 0, 0, 0, 0, 0>>, <<0, 0, 0, 0, 0, 0, 0, 1>>, <<63, 240, 0, 0, 0, 0, 0, 0>>,
          <<64, 0, 0, 0, 0, 0, 0, 0>>}

PlainLits(ty) ==
    CASE ty.k \in {"Int", "Uint"} -> {Lit("Int", v) : v \in LitValsOf(ty)}
      [] ty.k = "Float" -> {FloatLit(b) : b \in FloatLitsOf(ty)}
      [] ty.k = "Char" -> {Lit("Char", 97), Lit("Char", 890)}
      [] ty.k = "Bool" -> {Lit("Bool", 0), Lit("Bool", 1)}
      [] OTHER -> {}

\* the literal expressions of type ty; typeck admits a negation of a signed
\* integer or a float only
LitExprs(id, span, ty) ==
    {LitExpr(id, span, ty, l) : l \in PlainLits(ty)}
    \cup (IF ty.k \in {"Int", "Float"}
          THEN {NegExpr(id, span, ty, LitExpr(id + 10, span, ty, l)) : l \in PlainLits(ty)}
          ELSE {})

\* the values of the constants named by a path: a few of the type's bits
PathBitsOf(ty) ==
    CASE ty \in {I8, U8} -> {<<1>>, <<255>>}
      [] ty = I16 -> {<<0, 255>>, <<255, 255>>}
      [] ty = F32 -> {<<63, 128, 0, 0>>, <<127, 192, 0, 0>>}
      [] ty = F64 -> {<<63, 240, 0, 0, 0, 0, 0, 0>>, <<127, 248, 0, 0, 0, 0, 0, 0>>}
      [] ty.k = "Char" -> {<<0, 0, 0, 97>>}
      [] ty.k = "Bool" -> {<<1>>}
      [] OTHER -> {<<>>}

\* the path q, lowered by a compiler built with debug assertions
InDebugBuild(q) == [q EXCEPT !.debug_assertions = TRUE]

ConstRes == Res("Const", NoAdt, 0)

AssocConstRes == Res("AssocConst", NoAdt, 0)

\* paths to constants that evaluate; uty is the user type written on an
\* associated constant
GoodPathExprs(id, span, ty, uty) ==
    UNION {{PathExpr(id, span, ty, ConstRes, "Some", "Valtree", "Ok", b, 0),
            PathExpr(id, span, ty, AssocConstRes, "Some", "Valtree", "Ok", b, uty),
            PathExpr(id, span, ty, AssocConstRes, "Some", "Opaque", "Ok", b, 0)}
           : b \in PathBitsOf(ty)}

\* paths that do not lower to a constant: failed resolution or evaluation,
\* a static, a unit variant, a constant of a struct type
BadPathExprs(id, span, ty) ==
    LET b == CHOOSE x \in PathBitsOf(ty) : TRUE
    IN  {PathExpr(id, span, ty, AssocConstRes, "None", "Valtree", "Ok", b, 0),
         PathExpr(id, span, ty, ConstRes, "None", "Valtree", "Ok", b, 0),
         InDebugBuild(PathExpr(id, span, ty, ConstRes, "None", "Valtree", "Ok", b, 0)),
         PathExpr(id, span, ty, ConstRes, "Err", "Valtree", "Ok", b, 0),
         PathExpr(id, span, ty, ConstRes, "Some", "TooGeneric", "Ok", b, 0),
         PathExpr(id, span, ty, AssocConstRes, "Some", "Reported", "Ok", b, 0),
         PathExpr(id, span, ty, ConstRes, "Some", "Opaque", "Reported", b, 0),
         PathExpr(id, span, ty, Res("Static", NoAdt, 0), "Some", "Valtree", "Ok", b, 0),
         PathExpr(id, span, AdtTy(OptionAdt, 1), Res("Variant", OptionAdt, 0), "Some",
                  "Valtree", "Ok", <<>>, 0),
         PathExpr(id, span, AdtTy(StructAdt, 0), ConstRes, "Some", "Valtree", "Ok", <<>>, 0)}

ConstBlockExprs(id, span, ty) ==
    LET b == CHOOSE x \in PathBitsOf(ty) : TRUE
        lit == CHOOSE l \in PlainLits(ty) : TRUE
        body == CallExpr(id + 10, span, ty)
    IN  {ConstBlockExpr(id, span, ty, LitExpr(id + 10, span, ty, lit), "Valtree", "Ok", b, 0),
         ConstBlockExpr(id, span, ty, LitExpr(id + 10, span, ty, Lit("Err", 5)),
                        "Opaque", "Reported", b, 6),
         ConstBlockExpr(id, span, ty, body, "Valtree", "Ok", b, 0),
         ConstBlockExpr(id, span, ty, body, "Opaque", "Ok", b, 0),
         ConstBlockExpr(id, span, ty, body, "TooGeneric", "TooGeneric", b, 0),
         ConstBlockExpr(id, span, ty, body, "Reported", "Reported", b, 6)}

\* expressions typeck should have rejected, and a literal it reported
OddLitExprs(id, span, ty) ==
    {CallExpr(id, span, ty),
     NegExpr(id, span, ty, CallExpr(id + 10, span, ty)),
     LitExpr(id, span, ty, Lit("Str", 0)),
     LitExpr(id, span, ty, Lit("Err", 5)),
     LitExpr(id, span, IF ty = U8 THEN I8 ELSE U8, Lit("Int", 1))}

\* every expression tried in literal position at type ty
OtherExprs(id, span, ty, uty) ==
    GoodPathExprs(id, span, ty, uty) \cup BadPathExprs(id, span, ty)
        \cup ConstBlockExprs(id, span, ty) \cup OddLitExprs(id, span, ty)

(***************************************************************************)
(* Surface range patterns (hir::PatKind::Range).                           *)
(***************************************************************************)
HirRange(id, span, ty, adj, lo, hi, end) ==
    [kind |-> "Range", hir_id |-> id, span |-> span, ty |-> ty, adj |-> adj,
     lo |-> lo, hi |-> hi, end |-> end, untaught |-> FALSE]

\* the range p, lowered in a session with -Z teach that has not taught E0030
Untaught(p) == [p EXCEPT !.untaught = TRUE]

Opt(S) == {None} \cup {Some(x) : x \in S}

RangeTys == {I8, U8, I16, F32, CharTy, BoolTy}

\* a few literals of the type, paired with the expressions that are none
FewLitExprs(id, span, ty) ==
    {e \in LitExprs(id, span, ty) :
        e.kind = "Lit" /\ (e.lit.val \in {1, 97, 128, 32768}
                             \/ (e.lit.kind = "Float" /\ e.lit.bits[1] = 63))}

EndpointPairs(ty) ==
    LET ls == Span(0, 3)
        hs == Span(6, 9)
    IN  (Opt(LitExprs(1, ls, ty)) \X Opt(LitExprs(2, hs, ty)))
        \cup (Opt(OtherExprs(1, ls, ty, 7)) \X Opt(OtherExprs(2, hs, ty, 8)))
        \cup (Opt(FewLitExprs(1, ls, ty)) \X Opt(OtherExprs(2, hs, ty, 8)))
        \cup (Opt(OtherExprs(1, ls, ty, 7)) \X Opt(FewLitExprs(2, hs, ty)))

\* the ranges of a session without -Z teach
QuietRanges ==
    UNION {{HirRange(3, Span(0, 9), ty, <<>>, p[1], p[2], end) :
                p \in EndpointPairs(ty), end \in {"Included", "Excluded"}}
           : ty \in RangeTys}

\* the same, and the ranges between two literals in a session with -Z teach
HirRanges ==
    QuietRanges
    \cup {Untaught(p) : p \in {p \in QuietRanges :
                                  /\ p.lo # None /\ p.hi # None
                                  /\ p.lo[1].kind = "Lit" /\ p.hi[1].kind = "Lit"}}

(***************************************************************************)
(* Surface patterns (hir::Pat).                                            *)
(***************************************************************************)
HirWild(id, span, ty, adj) ==
    [kind |-> "Wild", hir_id |-> id, span |-> span, ty |-> ty, adj |-> adj]

HirLit(id, span, ty, adj, value) ==
    [kind |-> "Lit", hir_id |-> id, span |-> span, ty |-> ty, adj |-> adj, value |-> value]

HirPath(id, span, ty, adj, res, resolve, eval, eval_raw, cbits, user_ty) ==
    [kind |-> "Path", hir_id |-> id, span |-> span, ty |-> ty, adj |-> adj, res |-> res,
     resolve |-> resolve, eval |-> eval, eval_raw |-> eval_raw, cbits |-> cbits,
     user_ty |-> user_ty, debug_assertions |-> FALSE]

\* kind: "Ref" or "Box"
HirDeref(kind, id, span, ty, adj, sub) ==
    [kind |-> kind, hir_id |-> id, span |-> span, ty |-> ty, adj |-> adj, sub |-> sub]

HirSlice(id, span, ty, adj, prefix, slice, suffix) ==
    [kind |-> "Slice", hir_id |-> id, span |-> span, ty |-> ty, adj |-> adj,
     prefix |-> prefix, slice |-> slice, suffix |-> suffix]

HirTuple(id, span, ty, adj, pats, ddpos) ==
    [kind |-> "Tuple", hir_id |-> id, span |-> span, ty |-> ty, adj |-> adj,
     pats |-> pats, ddpos |-> ddpos]

BindingModeRec(by, mutbl) == [by |-> by, mutbl |-> mutbl]

Ident(name, span) == [name |-> name, span |-> span]

HirBinding(id, span, ty, adj, bm, var, ident, sub) ==
    [kind |-> "Binding", hir_id |-> id, span |-> span, ty |-> ty, adj |-> adj,
     bm |-> bm, id |-> var, ident |-> ident, sub |-> sub]

HirTupleStruct(id, span, ty, adj, res, user_ty, nfields, pats, ddpos) ==
    [kind |-> "TupleStruct", hir_id |-> id, span |-> span, ty |-> ty, adj |-> adj,
     res |-> res, user_ty |-> user_ty, nfields |-> nfields, pats |-> pats, ddpos |-> ddpos]

HirField(field, pat) == [field |-> field, pat |-> pat]

HirStruct(id, span, ty, adj, res, user_ty, fields) ==
    [kind |-> "Struct", hir_id |-> id, span |-> span, ty |-> ty, adj |-> adj,
     res |-> res, user_ty |-> user_ty, fields |-> fields]

HirOr(id, span, ty, adj, pats) ==
    [kind |-> "Or", hir_id |-> id, span |-> span, ty |-> ty, adj |-> adj, pats |-> pats]

\* the adjustments typeck records for n implicit dereferences down to ty:
\* outermost first, <<&&ty, &ty>> for two
RECURSIVE RefN(_, _)
RefN(ty, n) == IF n = 0 THEN ty ELSE RefTy(RefN(ty, n - 1))

Adjustments(ty, n) == [i \in 1..n |-> RefN(ty, n + 1 - i)]

WithAdj(p, n) == [p EXCEPT !.adj = Adjustments(p.ty, n)]

\* the sequences over S of length at most n
SeqsUpTo(S, n) == UNION {[1..m -> S] : m \in 0..n}

(***************************************************************************)
(* The surface patterns lowered: leaves of every kind, well-formed and     *)
(* not, and patterns over lists of a few of them.                          *)
(***************************************************************************)
LeafSpan == Span(2, 5)

IntLit(ty, v) == LitExpr(31, LeafSpan, ty, Lit("Int", v))

KidWild == HirWild(21, LeafSpan, I8, <<>>)

KidLit == HirLit(22, LeafSpan, I8, <<>>, IntLit(I8, 1))

\* a literal whose conversion error an earlier phase reported
KidLitReported == HirLit(23, LeafSpan, I8, <<>>, LitExpr(31, LeafSpan, I8, Lit("Err", 5)))

\* `2..=1`
KidRangeBad ==
    HirRange(24, LeafSpan, I8, <<>>, Some(IntLit(I8, 2)), Some(IntLit(I8, 1)), "Included")

KidBinding ==
    HirBinding(25, LeafSpan, I8, <<>>, BindingModeRec("Value", "Not"), 25,
               Ident("x", Span(2, 3)), None)

Kids == {KidWild, KidLit, KidLitReported, KidRangeBad, KidBinding}

FewKids == {KidWild, KidRangeBad}

LitLeaves ==
    {HirLit(22, LeafSpan, I8, <<>>, e) :
        e \in OtherExprs(31, LeafSpan, I8, 7)
              \cup {IntLit(I8, 1), IntLit(I8, 300),
                    NegExpr(31, LeafSpan, I8, IntLit(I8, 128)),
                    LitExpr(31, LeafSpan, F32, FloatLit(<<63, 128, 0, 0>>))}}

RangeLeafEndpoints(id, uty) ==
    {LitExpr(id, LeafSpan, I8, Lit("Int", 1)), LitExpr(id, LeafSpan, I8, Lit("Int", 2)),
     NegExpr(id, LeafSpan, I8, LitExpr(id + 10, LeafSpan, I8, Lit("Int", 130))),
     PathExpr(id, LeafSpan, I8, AssocConstRes, "Some", "Valtree", "Ok", <<1>>, uty),
     PathExpr(id, LeafSpan, I8, Res("Static", NoAdt, 0), "Some", "Valtree", "Ok", <<1>>, 0),
     LitExpr(id, LeafSpan, U8, Lit("Int", 1))}

RangeLeaves ==
    {HirRange(24, LeafSpan, ty, <<>>, lo, hi, end) :
        ty \in {I8, BoolTy}, lo \in Opt(RangeLeafEndpoints(31, 7)),
        hi \in Opt(RangeLeafEndpoints(32, 8)), end \in {"Included", "Excluded"}}

FnDefTy == [k |-> "FnDef", w |-> 0, args |-> 1]

PathLeaves ==
    {[HirPath(26, LeafSpan, e.ty, <<>>, e.res, e.resolve, e.eval, e.eval_raw, e.cbits,
              e.user_ty) EXCEPT !.debug_assertions = e.debug_assertions] :
        e \in GoodPathExprs(26, LeafSpan, I8, 7) \cup BadPathExprs(26, LeafSpan, I8)}
    \cup {HirPath(26, LeafSpan, ty, <<>>, res, "Some", "Valtree", "Ok", <<>>, uty) :
            ty \in {AdtTy(OptionAdt, 1), AdtTy(SingleAdt, 0), FnDefTy, ErrorTy(3), I8},
            res \in {Res("Variant", OptionAdt, 1), Res("CtorVariant", OptionAdt, 1),
                     Res("Variant", SingleAdt, 0), Res("Variant", StructAdt, 0),
                     Res("Struct", StructAdt, 0), Res("SelfCtor", StructAdt, 0),
                     Res("ConstParam", NoAdt, 0), Res("Static", NoAdt, 0),
                     Res("Local", NoAdt, 0)},
            uty \in {0, 9}}

BindingLeaves ==
    {HirBinding(25, LeafSpan, ty, <<>>, BindingModeRec(by, mutbl), var, Ident("x", isp), None) :
        ty \in {I8, RefTy(I8)}, by \in {"Missing", "Value", "Reference"},
        mutbl \in {"Mut", "Not"}, var \in {25, 20}, isp \in {Span(2, 3), Span(7, 8)}}

LeafPats == Kids \cup LitLeaves \cup RangeLeaves \cup PathLeaves \cup BindingLeaves

\* the lists of sub-patterns
KidLists == SeqsUpTo(Kids, MaxLen)

FewKidLists == SeqsUpTo(FewKids, MaxLen)

RootSpan == Span(0, 9)

OrPats == {HirOr(10, RootSpan, I8, <<>>, pats) : pats \in KidLists}

\* a tuple pattern of the tuple type of arity n has n sub-patterns, or
\* fewer and a rest marker; a tuple pattern is also tried at a type that is
\* no tuple
TuplePats ==
    {HirTuple(11, RootSpan, TupleTy(Len(pats)), <<>>, pats, None) : pats \in KidLists}
    \cup UNION {{HirTuple(11, RootSpan, TupleTy(Len(pats) + gap), <<>>, pats, Some(g)) :
                    g \in 0..Len(pats), gap \in 0..1}
                : pats \in KidLists}
    \cup {HirTuple(11, RootSpan, I8, <<>>, pats, None) : pats \in FewKidLists}

SliceTys == {SliceTy, I8} \cup {ArrayTy(n) : n \in 0..MaxArrayLen}

SlicePats ==
    {HirSlice(12, RootSpan, ty, <<>>, prefix, slice, suffix) :
        ty \in SliceTys, prefix \in FewKidLists, slice \in {None, Some(KidWild)},
        suffix \in FewKidLists}

TupleStructPats ==
    UNION {{HirTupleStruct(13, RootSpan, ty, <<>>, res, uty, Len(pats) + gap, pats,
                           IF gap = 0 THEN None ELSE Some(0)) :
                ty \in {AdtTy(OptionAdt, 1), AdtTy(StructAdt, 0), I8},
                res \in {Res("CtorVariant", OptionAdt, 1), Res("CtorStruct", StructAdt, 0),
                         Res("SelfCtor", StructAdt, 0)},
                uty \in {0, 9}, gap \in 0..1}
           : pats \in FewKidLists}

\* the fields of a struct pattern, written in the reverse of the declared order
FieldsOf(pats) == [i \in 1..Len(pats) |-> HirField(Len(pats) - i, pats[i])]

StructPats ==
    {HirStruct(14, RootSpan, ty, <<>>, res, uty, FieldsOf(pats)) :
        ty \in {AdtTy(OptionAdt, 1), AdtTy(StructAdt, 0), ErrorTy(3)},
        res \in {Res("Variant", OptionAdt, 1), Res("Struct", StructAdt, 0),
                 Res("ConstParam", NoAdt, 0)},
        uty \in {0, 9}, pats \in FewKidLists}

ListPats == OrPats \cup TuplePats \cup SlicePats \cup TupleStructPats \cup StructPats

\* `&p`, `box p`, `x @ p`, and a list with a nested pattern in it
DerefPats(S) ==
    {HirDeref(kind, 15, RootSpan, RefTy(p.ty), <<>>, p) : kind \in {"Ref", "Box"}, p \in S}

AtPats(S) ==
    {HirBinding(16, RootSpan, p.ty, <<>>, BindingModeRec("Value", "Mut"), 16,
                Ident("y", Span(0, 1)), Some(p)) : p \in S}

NestedPats ==
    DerefPats(LeafPats \cup ListPats) \cup AtPats(Kids \cup OrPats \cup SlicePats)
    \cup {HirOr(17, RootSpan, I8, <<>>, <<KidRangeBad, p>>) : p \in OrPats \cup DerefPats(Kids)}

\* a range with neither bound, which the earlier phases should have rejected
KidRangeOpen == HirRange(28, LeafSpan, I8, <<>>, None, None, "Excluded")

\* the range with neither bound before and after a sibling
OpenRangePats ==
    {HirOr(18, RootSpan, I8, <<>>, <<KidRangeOpen, p>>) : p \in Kids}
    \cup {HirTuple(19, RootSpan, TupleTy(2), <<>>, <<p, KidRangeOpen>>, None) : p \in Kids}

\* `2..=1` in a session with -Z teach: alone, and in the lists of it
TeachPats ==
    {Untaught(KidRangeBad)}
    \cup {HirOr(10, RootSpan, I8, <<>>, pats) :
            pats \in SeqsUpTo({Untaught(KidRangeBad), KidWild}, MaxLen)}

\* every pattern, without and with implicit dereferences
HirPats ==
    UNION {{WithAdj(p, n) : p \in LeafPats \cup ListPats} : n \in 0..MaxAdjust}
    \cup {WithAdj(p, n) : p \in NestedPats, n \in {0, MaxAdjust}}
    \cup HirRanges \cup OpenRangePats \cup TeachPats

(***************************************************************************)
(* The calls.                                                              *)
(***************************************************************************)
Init ==
    /\ called = "init"
    /\ input = NoValue
    /\ result = NoValue
    /\ folded = NoValue

\* compare_const_vals(tcx, a, b, param_env)
Compare ==
    /\ called = "init"
    /\ \E pair \in ConstPairs :
        /\ called' = "compare_const_vals"
        /\ input' = pair
        /\ result' = compare_const_vals(pair[1], pair[2])
        /\ folded' = NoValue

\* lower_pattern_range(lo_expr, hi_expr, end, ty, span) of a surface range
LowerPatternRange ==
    /\ called = "init"
    /\ \E p \in HirRanges :
        /\ called' = "lower_pattern_range"
        /\ input' = p
        /\ result' = lower_pattern_range(p.lo, p.hi, p.end, p.ty, p.span, p.untaught, <<>>)
        /\ folded' = NoValue

\* the endpoint expressions of the ranges, each with the type of its range
OverflowCalls ==
    UNION {{[expr |-> e, ty |-> ty] :
                e \in Opt(LitExprs(1, Span(0, 3), ty) \cup OtherExprs(1, Span(0, 3), ty, 7))}
           : ty \in RangeTys}

\* error_on_literal_overflow(expr, ty)
ErrorOnLiteralOverflow ==
    /\ called = "init"
    /\ \E c \in OverflowCalls :
        /\ called' = "error_on_literal_overflow"
        /\ input' = c
        /\ result' = error_on_literal_overflow(c.expr, c.ty, <<>>)
        /\ folded' = NoValue

NextOverflow == ErrorOnLiteralOverflow

SpecOverflow == Init /\ [][NextOverflow]_vars

\* pat_from_hir(tcx, param_env, typeck_results, pat)
PatFromHir ==
    /\ called = "init"
    /\ \E p \in HirPats :
        /\ called' = "pat_from_hir"
        /\ input' = p
        /\ result' = pat_from_hir(p)
        /\ folded' = NoValue

\* lower_patterns(pats)
LowerPatterns ==
    /\ called = "init"
    /\ \E pats \in KidLists :
        /\ called' = "lower_patterns"
        /\ input' = pats
        /\ result' = lower_patterns(pats, <<>>)
        /\ folded' = NoValue

\* slice_or_array_pattern(span, ty, prefix, slice, suffix)
SliceOrArrayPattern ==
    /\ called = "init"
    /\ \E p \in SlicePats :
        /\ called' = "slice_or_array_pattern"
        /\ input' = p
        /\ result' = slice_or_array_pattern(p.span, p.ty, p.prefix, p.slice, p.suffix, <<>>)
        /\ folded' = NoValue

\* pattern.fold_with(folder) on the tree a lowering returned, the folder one
\* that keeps the default methods; the tree is borrowed (&self)
FoldWith ==
    /\ called = "pat_from_hir"
    /\ result.ok
    /\ called' = "fold_with"
    /\ folded' = fold_pattern(result.v)
    /\ UNCHANGED <<input, result>>

Next == PatFromHir \/ LowerPatterns \/ SliceOrArrayPattern \/ FoldWith

Spec == Init /\ [][Next]_vars

NextCmp == Compare

NextRange == LowerPatternRange

SpecRange == Init /\ [][NextRange]_vars

SpecCmp == Init /\ [][NextCmp]_vars

\* the comparator alone, and under the range lowering that consults it
NextNaN == Compare \/ LowerPatternRange

SpecNaN == Init /\ [][NextNaN]_vars

(***************************************************************************)
(* The calls of the path and constant lowerings, each alone.               *)
(***************************************************************************)
\* the resolutions lower_variant_or_leaf is called with
VariantOrLeafRes ==
    {Res("Variant", OptionAdt, 1), Res("CtorVariant", OptionAdt, 1),
     Res("Variant", SingleAdt, 0), Res("CtorVariant", SingleAdt, 0),
     Res("Variant", StructAdt, 0), Res("ConstParam", NoAdt, 0), Res("Static", NoAdt, 0),
     Res("Local", NoAdt, 0), Res("Err", NoAdt, 0)}
    \cup {Res(k, StructAdt, 0) : k \in LeafResKinds}

\* the node of a call of lower_variant_or_leaf and its lowered sub-patterns;
\* an ADT type is the type of the ADT the resolution belongs to
VariantOrLeafCalls ==
    {c \in {[hir_id |-> 13, span |-> RootSpan, ty |-> ty, res |-> res, user_ty |-> uty,
             subpatterns |-> subs] :
                res \in VariantOrLeafRes,
                ty \in {AdtTy(OptionAdt, 1), AdtTy(SingleAdt, 0), AdtTy(StructAdt, 0), FnDefTy,
                        ErrorTy(3), I8},
                uty \in {0, 9},
                subs \in {<<>>, <<FieldPat(0, MkPat(LeafSpan, I8, [k |-> "Wild"]))>>}} :
        (c.ty.k = "Adt" /\ c.res.adt # NoAdt) => c.ty.w = c.res.adt.did}

\* the answers of the two evaluations of one constant: the second is asked
\* when the first gives no valtree, and fails as the first did
EvalAnswers ==
    {<<"Valtree", "Ok">>, <<"Opaque", "Ok">>, <<"TooGeneric", "TooGeneric">>,
     <<"Reported", "Reported">>}

\* the paths to a constant: named or associated, with and without a user
\* type recorded for the node
ReleaseConstPaths ==
    UNION {{PathExpr(26, LeafSpan, ty, Res(k, NoAdt, 0), resolve, ev[1], ev[2], b, uty) :
                k \in {"Const", "AssocConst"}, resolve \in {"Some", "None", "Err"},
                ev \in EvalAnswers, b \in PathBitsOf(ty), uty \in {0, 7}}
           : ty \in {I8, F32, AdtTy(StructAdt, 0)}}

\* the same, and the paths that do not resolve in a build with debug
\* assertions as well
ConstPaths ==
    ReleaseConstPaths
    \cup {InDebugBuild(q) : q \in {q \in ReleaseConstPaths : q.resolve = "None"}}

\* the paths that name no constant
OtherPaths ==
    {PathExpr(26, LeafSpan, c.ty, c.res, "Some", "Valtree", "Ok", <<>>, c.user_ty) :
        c \in {c \in VariantOrLeafCalls : c.subpatterns = <<>>}}

\* the inline const blocks: the body a literal, a negated literal, a literal
\* an earlier phase reported, or an expression that has to be evaluated
InlineConsts ==
    UNION {{ConstBlockExpr(27, LeafSpan, ty, body, ev[1], ev[2], b, 6) :
                body \in {LitExpr(37, LeafSpan, ty, CHOOSE l \in PlainLits(ty) : TRUE),
                          NegExpr(37, LeafSpan, ty,
                                  LitExpr(47, LeafSpan, ty, CHOOSE l \in PlainLits(ty) : TRUE)),
                          LitExpr(37, LeafSpan, ty, Lit("Err", 5)),
                          CallExpr(37, LeafSpan, ty)},
                ev \in EvalAnswers, b \in PathBitsOf(ty)}
           : ty \in {I8, I16, F32}}

\* lower_variant_or_leaf(res, hir_id, span, ty, subpatterns)
LowerVariantOrLeaf ==
    /\ called = "init"
    /\ \E c \in VariantOrLeafCalls :
        /\ called' = "lower_variant_or_leaf"
        /\ input' = c
        /\ result' = lower_variant_or_leaf(c.res, c, c.span, c.ty, c.subpatterns, <<>>)
        /\ folded' = NoValue

\* lower_path(qpath, id, span)
LowerPath ==
    /\ called = "init"
    /\ \E q \in ConstPaths \cup OtherPaths :
        /\ called' = "lower_path"
        /\ input' = q
        /\ result' = lower_path(q, q.span, <<>>)
        /\ folded' = NoValue

\* lower_inline_const(block, id, span)
LowerInlineConst ==
    /\ called = "init"
    /\ \E e \in InlineConsts :
        /\ called' = "lower_inline_const"
        /\ input' = e
        /\ result' = lower_inline_const(e, e.span, <<>>)
        /\ folded' = NoValue

NextPath == LowerVariantOrLeaf \/ LowerPath \/ LowerInlineConst

SpecPath == Init /\ [][NextPath]_vars

(***************************************************************************)
(* Two calls of pat_from_hir run by an outer scheduler, their steps        *)
(* interleaved, in one session.  A call is a recursive descent: its stack  *)
(* holds a frame for every node it is in, with the sub-patterns of the     *)
(* node lowered so far.  A step enters pat_from_hir, descends to the next  *)
(* sub-pattern of a node, or does the next operation on the session of a   *)
(* node whose sub-patterns are lowered: sess.teach, or an emit_err or      *)
(* delay_span_bug; the node is built with the last of them.  Each          *)
(* operation on the session is a step of its own, and the other call may   *)
(* run between sess.teach of line 218 and the emit_err of line 216 that    *)
(* takes its answer.  What the two calls share is the session, tcx.sess:   *)
(* the diagnostics it has recorded and the codes it has taught (the        *)
(* handler's taught_diagnostics).  `input` is the pair of trees; `result`  *)
(* holds the session and the two calls, each with its stack, its own trace *)
(* t and what it returned.  On a range node `untaught` says here that the  *)
(* session has -Z teach.                                                   *)
(***************************************************************************)
\* `2..=1`, in a session with -Z teach or without
RangeBadIn(untaught) == IF untaught THEN Untaught(KidRangeBad) ELSE KidRangeBad

\* an expression in literal position that is no literal: a span_bug!
KidLitCall == HirLit(22, LeafSpan, I8, <<>>, CallExpr(31, LeafSpan, I8))

\* `S..=1`, S a static: a diagnostic and then a delayed bug
KidRangeStatic ==
    HirRange(24, LeafSpan, I8, <<>>,
             Some(PathExpr(31, LeafSpan, I8, Res("Static", NoAdt, 0), "Some", "Valtree", "Ok",
                           <<1>>, 0)),
             Some(IntLit(I8, 1)), "Included")

\* the trees lowered together: leaves with no diagnostic, with one, with
\* two, with oracle calls that fail; a node of every kind that has
\* sub-patterns, over them; one with implicit dereferences, one that panics
\* half way, one that panics when its sub-patterns are lowered, one whose
\* own diagnostic comes after those of its sub-patterns
ConcTrees(untaught) ==
    {RangeBadIn(untaught), KidRangeStatic,
     HirOr(10, RootSpan, I8, <<>>, <<RangeBadIn(untaught), KidLitReported>>),
     HirOr(10, RootSpan, I8, <<>>, <<RangeBadIn(untaught), RangeBadIn(untaught)>>),
     WithAdj(HirOr(10, RootSpan, I8, <<>>,
                   <<KidRangeOpen,
                     HirPath(26, LeafSpan, I8, <<>>, ConstRes, "Some", "TooGeneric",
                             "TooGeneric", <<1>>, 0)>>), 1),
     HirDeref("Ref", 15, RootSpan, RefTy(I8), <<>>,
              HirOr(10, RootSpan, I8, <<>>, <<KidLitCall, RangeBadIn(untaught)>>)),
     HirTuple(11, RootSpan, TupleTy(2), <<>>,
              <<RangeBadIn(untaught), RangeBadIn(untaught)>>, None),
     HirBinding(16, RootSpan, I8, <<>>, BindingModeRec("Value", "Mut"), 16,
                Ident("y", Span(0, 1)), Some(RangeBadIn(untaught))),
     HirSlice(12, RootSpan, ArrayTy(1), <<>>, <<RangeBadIn(untaught)>>, Some(KidWild),
              <<RangeBadIn(untaught)>>),
     HirTupleStruct(13, RootSpan, AdtTy(OptionAdt, 1), <<>>, Res("CtorVariant", OptionAdt, 1),
                    0, 1, <<RangeBadIn(untaught)>>, None),
     HirStruct(14, RootSpan, AdtTy(StructAdt, 0), <<>>, Res("ConstParam", NoAdt, 0), 0,
               FieldsOf(<<RangeBadIn(untaught), KidWild>>))}

\* the event e, as the session records it for the call i
Tagged(e, i) == [x \in DOMAIN e \cup {"who"} |-> IF x = "who" THEN i ELSE e[x]]

\* the node ends in span_bug!, bug! or a failed expect before any of its
\* sub-patterns is lowered (lines 273, 288, 307, 325, 327)
EntryPanics(pat) ==
    CASE pat.kind = "Tuple" -> pat.ty.k # "Tuple"
      [] pat.kind = "TupleStruct" ->
            \/ pat.ty.k # "Adt"
            \/ variant_of_res(AdtDefOfTy(pat.ty), pat.res, pat.nfields) = None
      [] pat.kind = "Binding" ->
            \/ pat.bm.by = "Missing"
            \/ pat.bm.by = "Reference" /\ pat.ty.k # "Ref"
      [] OTHER -> FALSE

\* the sub-patterns lower_pattern is called on by the arm of the node, in
\* the order of the calls
Descents(pat) ==
    IF EntryPanics(pat) THEN <<>>
    ELSE CASE pat.kind = "Or" -> pat.pats
           [] pat.kind \in {"Ref", "Box"} -> <<pat.sub>>
           [] pat.kind \in {"Tuple", "TupleStruct"} -> pat.pats
           [] pat.kind = "Struct" -> [k \in 1..Len(pat.fields) |-> pat.fields[k].pat]
           [] pat.kind = "Slice" ->
                 pat.prefix \o (IF pat.slice = None THEN <<>> ELSE <<pat.slice[1]>>)
                     \o pat.suffix
           [] pat.kind = "Binding" -> IF pat.sub = None THEN <<>> ELSE <<pat.sub[1]>>
           [] OTHER -> <<>>

\* a frame: the node, its sub-patterns lowered so far, what sess.teach
\* answered the node, and how many of its own events the session has
Frame(pat) == [pat |-> pat, kids |-> <<>>, asked |-> None, emitted |-> 0]

\* a call that has not begun
NotEntered == [pc |-> "start", stack |-> <<>>, t |-> <<>>, ret |-> None]

\* the node, with what sess.teach answered for it
SessionAt(pat, asked) ==
    IF pat.kind = "Range" THEN [pat EXCEPT !.untaught = asked # None /\ asked[1]] ELSE pat

\* the node evaluates sess.teach(E0030): a range that comes to line 216
CallsTeach(pat, t) ==
    /\ pat.kind = "Range"
    /\ \E k \in Len(t) + 1..Len(lower_pattern(pat, t).t) :
          /\ lower_pattern(pat, t).t[k].ev = "emit"
          /\ lower_pattern(pat, t).t[k].kind = "LowerRangeBoundMustBeLessThanOrEqualToUpper"

\* lower_tuple_subpats: the lowered sub-patterns, each with its field
FieldPatsGiven(pat, kids, expected_len) ==
    [k \in 1..Len(kids) |->
        FieldPat(AdjustedIndex(k - 1, Len(kids), expected_len, pat.ddpos), kids[k])]

\* the kind of a node from its lowered sub-patterns
KindGiven(pat, kids, t) ==
    CASE pat.kind = "Or" -> KindOfSubpatterns(pat, Ret(kids, t))
      [] pat.kind \in {"Ref", "Box"} -> KindOfSubpatterns(pat, Ret(kids[1], t))
      [] pat.kind = "Tuple" ->
            KindOfSubpatterns(pat, Ret(FieldPatsGiven(pat, kids, pat.ty.w), t))
      [] pat.kind = "TupleStruct" ->
            KindOfSubpatterns(
                pat, Ret(FieldPatsGiven(
                             pat, kids,
                             variant_of_res(AdtDefOfTy(pat.ty), pat.res,
                                            pat.nfields)[1].fields_len), t))
      [] pat.kind = "Struct" ->
            KindOfSubpatterns(
                pat, Ret([k \in 1..Len(kids) |-> FieldPat(pat.fields[k].field, kids[k])], t))
      [] pat.kind = "Slice" ->
            SliceOrArrayKind(pat.ty, SubSeq(kids, 1, Len(pat.prefix)),
                             IF pat.slice = None THEN None
                             ELSE Some(kids[Len(pat.prefix) + 1]),
                             SubSeq(kids, Len(kids) - Len(pat.suffix) + 1, Len(kids)), t)

\* lower_pattern of a node whose sub-patterns are lowered: the kind of
\* the node, the pattern and its adjustments
LowerGiven(pat, kids, t) ==
    LET Adjusted(r) == IF ~r.ok THEN r ELSE Ret(WrapAdjustments(r.v, pat.adj), r.t)
    IN  Adjusted(IF pat.kind = "Binding"
                 THEN BindingOfSub(pat, BindingModeOf(pat.bm), Ret(Some(kids[1]), t))
                 ELSE PatOfKind(pat.span, pat.ty, KindGiven(pat, kids, t)))

\* the call c after the node on top of its stack has lowered to r: a panic
\* unwinds the call, the root is the result of the call, any other node is
\* handed to its parent
Deliver(c, r) ==
    IF ~r.ok
    THEN [pc |-> "returning", stack |-> <<>>, t |-> r.t, ret |-> Some([ok |-> FALSE, v |-> NoValue])]
    ELSE IF Len(c.stack) = 1
    THEN [pc |-> "returning", stack |-> <<>>, t |-> r.t, ret |-> Some([ok |-> TRUE, v |-> r.v])]
    ELSE [c EXCEPT !.t = r.t,
                   !.stack = SubSeq(c.stack, 1, Len(c.stack) - 2)
                             \o <<[c.stack[Len(c.stack) - 1] EXCEPT !.kids = Append(@, r.v)]>>]

\* what the session is given of the events `es`: the diagnostics and the
\* delayed bugs
Record(es) == SelectSeq(es, LAMBDA e : e.ev # "call")

\* the node on top of the stack of the call i lowers to r: the next of its
\* events is given to the session, and with the last of them, or with
\* none, the node is done
Complete(i, r) ==
    LET c == result.call[i]
        top == c.stack[Len(c.stack)]
        es == Record(SubSeq(r.t, Len(c.t) + 1, Len(r.t)))
    IN  IF es = <<>> THEN result' = [result EXCEPT !.call[i] = Deliver(c, r)]
        ELSE IF top.emitted + 1 < Len(es)
        THEN result' = [result EXCEPT
                          !.sess.diagnostics = Append(@, Tagged(es[top.emitted + 1], i)),
                          !.call[i].stack[Len(c.stack)].emitted = @ + 1]
        ELSE result' = [result EXCEPT
                          !.sess.diagnostics = Append(@, Tagged(es[top.emitted + 1], i)),
                          !.call[i] = Deliver(c, r)]

StartConcurrent ==
    /\ called = "init"
    /\ \E untaught \in BOOLEAN :
        \E ps \in ConcTrees(untaught) \X ConcTrees(untaught) :
            /\ called' = "lower_concurrently"
            /\ input' = ps
            /\ result' = [sess |-> [diagnostics |-> <<>>, taught |-> {}],
                          call |-> <<NotEntered, NotEntered>>]
            /\ folded' = NoValue

\* the call i enters pat_from_hir: its context is built and lower_pattern
\* is called on the root
Enter(i) ==
    /\ called = "lower_concurrently"
    /\ result.call[i].pc = "start"
    /\ result' = [result EXCEPT !.call[i] = [pc |-> "lowering", stack |-> <<Frame(input[i])>>,
                                             t |-> <<>>, ret |-> None]]
    /\ UNCHANGED <<called, input, folded>>

\* the call i goes into the next sub-pattern of the node it is in
Descend(i) ==
    /\ called = "lower_concurrently"
    /\ result.call[i].pc = "lowering"
    /\ LET c == result.call[i]
           top == c.stack[Len(c.stack)]
       IN  /\ Len(top.kids) < Len(Descents(top.pat))
           /\ result' = [result EXCEPT
                           !.call[i].stack =
                               Append(@, Frame(Descents(top.pat)[Len(top.kids) + 1]))]
    /\ UNCHANGED <<called, input, folded>>

\* the call i evaluates self.tcx.sess.teach(&error_code!(E0030)), the
\* argument of the emit_err of line 216: with -Z teach the handler puts the
\* code into taught_diagnostics and answers whether it was new
Teach(i) ==
    /\ called = "lower_concurrently"
    /\ result.call[i].pc = "lowering"
    /\ LET c == result.call[i]
           top == c.stack[Len(c.stack)]
       IN  /\ Descents(top.pat) = <<>>
           /\ top.asked = None
           /\ CallsTeach(top.pat, c.t)
           /\ result' = [result EXCEPT
                           !.call[i].stack[Len(c.stack)].asked =
                               Some(top.pat.untaught /\ "E0030" \notin result.sess.taught),
                           !.sess.taught =
                               IF top.pat.untaught THEN @ \cup {"E0030"} ELSE @]
    /\ UNCHANGED <<called, input, folded>>

\* the call i lowers a node that has no sub-pattern to go into, an
\* operation on the session at a time
LowerLeaf(i) ==
    /\ called = "lower_concurrently"
    /\ result.call[i].pc = "lowering"
    /\ LET c == result.call[i]
           top == c.stack[Len(c.stack)]
       IN  /\ Descents(top.pat) = <<>>
           /\ CallsTeach(top.pat, c.t) => top.asked # None
           /\ Complete(i, lower_pattern(SessionAt(top.pat, top.asked), c.t))
    /\ UNCHANGED <<called, input, folded>>

\* the call i builds the node whose sub-patterns it has lowered
Finish(i) ==
    /\ called = "lower_concurrently"
    /\ result.call[i].pc = "lowering"
    /\ LET c == result.call[i]
           top == c.stack[Len(c.stack)]
       IN  /\ Descents(top.pat) # <<>>
           /\ Len(top.kids) = Len(Descents(top.pat))
           /\ Complete(i, LowerGiven(top.pat, top.kids, c.t))
    /\ UNCHANGED <<called, input, folded>>

\* the call i returns its tree, or its panic reaches the caller
Return(i) ==
    /\ called = "lower_concurrently"
    /\ result.call[i].pc = "returning"
    /\ result' = [result EXCEPT !.call[i].pc = "done"]
    /\ UNCHANGED <<called, input, folded>>

EnterSome == \E i \in 1..2 : Enter(i)

DescendSome == \E i \in 1..2 : Descend(i)

TeachSome == \E i \in 1..2 : Teach(i)

LowerLeafSome == \E i \in 1..2 : LowerLeaf(i)

FinishSome == \E i \in 1..2 : Finish(i)

ReturnSome == \E i \in 1..2 : Return(i)

NextConcurrent ==
    \/ StartConcurrent \/ EnterSome \/ DescendSome \/ TeachSome \/ LowerLeafSome
    \/ FinishSome \/ ReturnSome

SpecConcurrent == Init /\ [][NextConcurrent]_vars

(***************************************************************************)
(* Postfix completions of                                                  *)
(* crates/ide_completion/src/completions/postfix.rs.                       *)
(*                                                                         *)
(* The file being edited is a sequence of tokens.  A completion context    *)
(* holds the dot receiver found in it: its tokens, whether it is a float   *)
(* literal that took the dot ("42."), and the kinds of its ancestors,      *)
(* the parent first.  An expression of the file is named by its level:     *)
(* 0 is the receiver, k its k-th ancestor.  An ancestor starts with its    *)
(* own leading tokens (the & of a reference expression) and ends with its  *)
(* trailing ones.  A receiver that is a string literal has the format-like *)
(* completions of the module format_like added last; the context holds     *)
(* what that module's parser makes of the literal.  An item holds the      *)
(* import (import_to_add) that is inserted with its edit.                  *)
(***************************************************************************)
Leading(kind) ==
    CASE kind = "REF_EXPR" -> <<"&">>
      [] kind = "ARG_LIST" -> <<"(">>
      [] kind = "CALL_EXPR" -> <<"foo">>
      [] kind = "STMT_LIST" -> <<"{">>
      [] OTHER -> <<>>

Trailing(kind) ==
    CASE kind = "ARG_LIST" -> <<")">>
      [] kind = "STMT_LIST" -> <<"}">>
      [] kind = "EXPR_STMT" -> <<";">>
      [] kind = "METHOD_CALL_EXPR" -> <<"(", ")">>
      [] OTHER -> <<>>

RECURSIVE LeadingFrom(_, _)
\* the leading tokens of the ancestors above the level k, the outermost first
LeadingFrom(ancestors, k) ==
    IF k >= Len(ancestors) THEN <<>>
    ELSE LeadingFrom(ancestors, k + 1) \o Leading(ancestors[k + 1])

RECURSIVE TrailingFrom(_, _)
TrailingFrom(ancestors, k) ==
    IF k >= Len(ancestors) THEN <<>>
    ELSE Trailing(ancestors[k + 1]) \o TrailingFrom(ancestors, k + 1)

\* what is between the receiver and the cursor: the dot, unless the float
\* literal took it, and what has been typed of the name
AfterReceiver(ctx) ==
    (IF ctx.receiver_is_ambiguous_float_literal THEN <<>> ELSE <<".">>)
        \o (IF ctx.original_token = "" THEN <<>> ELSE <<ctx.original_token>>)

FileText(ctx) ==
    LeadingFrom(ctx.ancestors, 0) \o ctx.receiver \o AfterReceiver(ctx)
        \o TrailingFrom(ctx.ancestors, 0)

\* syntax().text() of the expression at the level k, a chain of reference
\* expressions down to the receiver
NodeText(ctx, k) ==
    [i \in 1..k |-> "&"] \o ctx.receiver

\* original_range(..).range.start() of the expression at the level k
NodeStart(ctx, k) == Len(LeadingFrom(ctx.ancestors, k))

\* ctx.source_range().end(): the cursor
SourceEnd(ctx) ==
    Len(LeadingFrom(ctx.ancestors, 0)) + Len(ctx.receiver) + Len(AfterReceiver(ctx))

\* the file after a text edit
ApplyEdit(ctx, edit) ==
    SubSeq(FileText(ctx), 1, edit.start) \o edit.insert
        \o SubSeq(FileText(ctx), edit.end + 1, Len(FileText(ctx)))

\* lines 182-190
get_receiver_text(ctx, k) ==
    IF ctx.receiver_is_ambiguous_float_literal
    THEN SubSeq(NodeText(ctx, k), 1, Len(NodeText(ctx, k)) - 1)
    ELSE NodeText(ctx, k)

\* the receiver as it is, whatever encloses it
IncludeNoReferences(ctx, k) == k

RECURSIVE include_references(_, _)
\* lines 192-200: climbs while the parent is a reference expression
include_references(ctx, k) ==
    IF k < Len(ctx.ancestors) /\ ctx.ancestors[k + 1] = "REF_EXPR"
    THEN include_references(ctx, k + 1)
    ELSE k

\* lines 202-223: the item of a snippet for the expression at the level k
build_postfix_snippet_builder(ctx, k, label, detail, snippet) ==
    [kind |-> "Postfix", label |-> label, detail |-> detail,
     edit |-> [start |-> NodeStart(ctx, k), end |-> SourceEnd(ctx), insert |-> snippet],
     exact_postfix_snippet_match |-> (ctx.original_token = label),
     import |-> None]

\* lines 235-262: the import of the first path the snippet requires, as the
\* scope resolves it (snippet.resolved); skip when it resolves to no item
ResolveImport(snippet) ==
    IF snippet.requires = <<>> THEN [skip |-> FALSE, import |-> None]
    ELSE IF snippet.resolved.k # "Def" THEN [skip |-> TRUE, import |-> None]
    ELSE IF snippet.resolved.use_path = None THEN [skip |-> TRUE, import |-> None]
    ELSE IF Len(snippet.resolved.use_path[1]) > 1
    THEN [skip |-> FALSE, import |-> Some(snippet.resolved.use_path[1])]
    ELSE [skip |-> FALSE, import |-> None]

RECURSIVE CustomItemsFrom(_, _, _, _)
\* lines 233-270: the items of the snippets from the i-th on
CustomItemsFrom(ctx, k, receiver_text, i) ==
    IF i > Len(ctx.postfix_snippets) THEN <<>>
    ELSE LET snippet == ctx.postfix_snippets[i]
             builder == build_postfix_snippet_builder(ctx, k, snippet.label,
                            snippet.description,
                            snippet.before \o receiver_text \o snippet.after)
         IN  (IF ResolveImport(snippet).skip THEN <<>>
              ELSE <<[builder EXCEPT !.import = ResolveImport(snippet).import]>>)
             \o CustomItemsFrom(ctx, k, receiver_text, i + 1)

\* lines 225-272
add_custom_postfix_completions(ctx, k, receiver_text) ==
    IF ~ctx.import_scope THEN <<>>
    ELSE CustomItemsFrom(ctx, k, receiver_text, 1)

\* format_like::KINDS: the labels and their macros
FormatLikeKinds ==
    <<<<"format", "format!">>, <<"panic", "panic!">>, <<"println", "println!">>,
      <<"eprintln", "eprintln!">>, <<"logd", "log::debug!">>, <<"logt", "log::trace!">>,
      <<"logi", "log::info!">>, <<"logw", "log::warn!">>, <<"loge", "log::error!">>>>

RECURSIVE CommaSeparated(_)
CommaSeparated(args) ==
    IF args = <<>> THEN <<>> ELSE <<",", Head(args)>> \o CommaSeparated(Tail(args))

\* line 177: format_like::add_format_like_completions for the string
\* literal at the level k, parsed as ctx.format_string
add_format_like_completions(ctx, k) ==
    IF ~ctx.format_string.ok THEN <<>>
    ELSE [i \in 1..Len(FormatLikeKinds) |->
            build_postfix_snippet_builder(ctx, k, FormatLikeKinds[i][1], FormatLikeKinds[i][2],
                <<FormatLikeKinds[i][2], "(", ctx.format_string.fmt>>
                    \o CommaSeparated(ctx.format_string.args) \o <<")">>)]

\* line 63: TryEnum::from_ty of the type without its references
TryEnumFromTy(ty) ==
    IF ty.base \in {"Option", "Result"} THEN Some(ty.base) ELSE None

\* hir::Type::is_bool, of the type as it is
IsBool(ty) == ty.refs = 0 /\ ty.base = "bool"

IsUnknown(ty) == ty.refs = 0 /\ ty.base = "unknown"

\* Option, Result and Vec and a reference to one of them are iterable; a
\* reference to a reference is not
ImplsIntoIterator(ty) == ty.base \in {"Option", "Result", "Vec"} /\ ty.refs <= 1

\* the for snippet whenever the type is iterable
TypeGroupForAlways(ctx, ty, text) ==
    LET sn(label, detail, snippet) == build_postfix_snippet_builder(ctx, 0, label, detail, snippet)
        try_enum == TryEnumFromTy(ty)
        ctor == IF try_enum = Some("Result") THEN "Ok" ELSE "Some"
        for == IF ctx.core_iter_IntoIterator /\ ImplsIntoIterator(ty)
               THEN <<sn("for", "for ele in expr {}", <<"for ele in">> \o text \o <<"{ $0 }">>)>>
               ELSE <<>>
    IN  IF try_enum # None
        THEN <<sn("ifl", "if let " \o ctor \o " {}", <<"if let", ctor, "($1) =">> \o text \o <<"{ $0 }">>),
               sn("while", "while let " \o ctor \o " {}", <<"while let", ctor, "($1) =">> \o text \o <<"{ $0 }">>)>>
             \o for
        ELSE IF IsBool(ty) \/ IsUnknown(ty)
        THEN <<sn("if", "if expr {}", <<"if">> \o text \o <<"{ $0 }">>),
               sn("while", "while expr {}", <<"while">> \o text \o <<"{ $0 }">>),
               sn("not", "!expr", <<"!">> \o text)>>
        ELSE for

\* lines 63-116: the snippets that depend on the type
TypeGroup(ctx, ty, text) ==
    LET sn(label, detail, snippet) == build_postfix_snippet_builder(ctx, 0, label, detail, snippet)
        try_enum == TryEnumFromTy(ty)
        ctor == IF try_enum = Some("Result") THEN "Ok" ELSE "Some"
    IN  IF try_enum # None
        THEN <<sn("ifl", "if let " \o ctor \o " {}", <<"if let", ctor, "($1) =">> \o text \o <<"{ $0 }">>),
               sn("while", "while let " \o ctor \o " {}", <<"while let", ctor, "($1) =">> \o text \o <<"{ $0 }">>)>>
        ELSE IF IsBool(ty) \/ IsUnknown(ty)
        THEN <<sn("if", "if expr {}", <<"if">> \o text \o <<"{ $0 }">>),
               sn("while", "while expr {}", <<"while">> \o text \o <<"{ $0 }">>),
               sn("not", "!expr", <<"!">> \o text)>>
        ELSE IF ctx.core_iter_IntoIterator /\ ImplsIntoIterator(ty)
        THEN <<sn("for", "for ele in expr {}", <<"for ele in">> \o text \o <<"{ $0 }">>)>>
        ELSE <<>>

\* lines 127-157: match, with the arms of the type
MatchSnippet(ty, text) ==
    CASE TryEnumFromTy(ty) = Some("Result") ->
            <<"match">> \o text \o <<"{ Ok(${1:_}) => {$2}, Err(${3:_}) => {$0}, }">>
      [] TryEnumFromTy(ty) = Some("Option") ->
            <<"match">> \o text \o <<"{ Some(${1:_}) => {$2}, None => {$0}, }">>
      [] OTHER -> <<"match">> \o text \o <<"{ ${1:_} => {$0}, }">>

\* lines 118-173: the snippets of every type, ref and refm for the receiver
\* at the level k0, the others for the expression at the level k
CommonGroup(ctx, ty, k0, k) ==
    LET bare(label, detail, snippet) == build_postfix_snippet_builder(ctx, k0, label, detail, snippet)
        sn(label, detail, snippet) == build_postfix_snippet_builder(ctx, k, label, detail, snippet)
        text0 == get_receiver_text(ctx, k0)
        text == get_receiver_text(ctx, k)
    IN  <<bare("ref", "&expr", <<"&">> \o text0),
          bare("refm", "&mut expr", <<"&mut">> \o text0),
          sn("match", "match expr {}", MatchSnippet(ty, text)),
          sn("box", "Box::new(expr)", <<"Box::new(">> \o text \o <<")">>),
          sn("ok", "Ok(expr)", <<"Ok(">> \o text \o <<")">>),
          sn("err", "Err(expr)", <<"Err(">> \o text \o <<")">>),
          sn("some", "Some(expr)", <<"Some(">> \o text \o <<")">>),
          sn("dbg", "dbg!(expr)", <<"dbg!(">> \o text \o <<")">>),
          sn("dbgr", "dbg!(&expr)", <<"dbg!(&">> \o text \o <<")">>),
          sn("call", "function(expr)", <<"${1}(">> \o text \o <<")">>)>>
        \o (IF k + 2 <= Len(ctx.ancestors) /\ ctx.ancestors[k + 2] \in {"STMT_LIST", "EXPR_STMT"}
            THEN <<sn("let", "let", <<"let $0 =">> \o text \o <<";">>),
                   sn("letm", "let mut", <<"let mut $0 =">> \o text \o <<";">>)>>
            ELSE <<>>)

AwaitItem ==
    [kind |-> "Keyword", label |-> "await", detail |-> "expr.await"]

\* lines 24-180: the items added to acc, in their order
complete_postfix(ctx) ==
    IF ~ctx.enable_postfix_completions THEN <<>>
    ELSE IF ~(ctx.completion_location \in {"MethodCall", "FieldAccess"} /\ ctx.has_receiver) THEN <<>>
    ELSE IF ctx.receiver_ty = None THEN <<>>
    ELSE (IF ctx.receiver_ty[1].base = "Future" /\ ctx.receiver_ty[1].refs = 0
          THEN <<AwaitItem>> ELSE <<>>)
         \o (IF ~ctx.snippet_cap THEN <<>>
             ELSE (IF ctx.postfix_snippets # <<>>
                   THEN add_custom_postfix_completions(ctx, 0, get_receiver_text(ctx, 0))
                   ELSE <<>>)
                  \o TypeGroup(ctx, ctx.receiver_ty[1], get_receiver_text(ctx, 0))
                  \o CommonGroup(ctx, ctx.receiver_ty[1], 0, include_references(ctx, 0))
                  \o (IF include_references(ctx, 0) = 0 /\ ctx.string_literal
                      THEN add_format_like_completions(ctx, 0)
                      ELSE <<>>))

(***************************************************************************)
(* The completion contexts.                                                *)
(***************************************************************************)
MaxRefs == 2

ReceiverTypes ==
    [refs : 0..MaxRefs, base : {"bool", "unknown", "u8", "Option", "Result", "Vec", "Future"}]

\* `bar.`, `foo(bar.)`, `&&bar.`: the receiver is under the field expression
FieldAncestors ==
    {<<"FIELD_EXPR", "EXPR_STMT", "STMT_LIST">>,
     <<"FIELD_EXPR", "STMT_LIST", "BLOCK_EXPR">>,
     <<"FIELD_EXPR", "ARG_LIST", "CALL_EXPR", "STMT_LIST">>,
     <<"FIELD_EXPR", "REF_EXPR", "REF_EXPR", "STMT_LIST">>}

MethodAncestors ==
    {<<"METHOD_CALL_EXPR", "EXPR_STMT", "STMT_LIST">>,
     <<"METHOD_CALL_EXPR", "REF_EXPR", "STMT_LIST", "BLOCK_EXPR">>}

\* `42.`, `&42.`, `&&42.`: the literal has taken the dot and is under what
\* encloses it
FloatAncestors ==
    {<<"STMT_LIST", "BLOCK_EXPR">>,
     <<"EXPR_STMT", "STMT_LIST">>,
     <<"REF_EXPR", "EXPR_STMT", "STMT_LIST">>,
     <<"REF_EXPR", "REF_EXPR", "STMT_LIST", "BLOCK_EXPR">>,
     <<"REF_EXPR", "REF_EXPR", "EXPR_STMT", "STMT_LIST">>,
     <<"REF_EXPR", "ARG_LIST", "CALL_EXPR", "STMT_LIST">>}

\* `break`, as ControlFlow::Break($target), requiring the paths `requires`
\* the first of which the scope resolves as `resolved`
BreakSnippet(requires, resolved) ==
    [label |-> "break", description |-> "", before |-> <<"ControlFlow::Break(">>,
     after |-> <<")">>, requires |-> requires, resolved |-> resolved]

\* `wrap`, which requires nothing
WrapSnippet ==
    [label |-> "wrap", description |-> "Wrap(expr)", before |-> <<"Wrap(">>,
     after |-> <<")">>, requires |-> <<>>, resolved |-> [k |-> "Unresolved"]]

\* what the scope answers for a required path: a definition with the path
\* to use it by, if there is one, or what is no definition
Resolutions ==
    {[k |-> "Def", use_path |-> Some(<<"core", "ops", "ControlFlow">>)],
     [k |-> "Def", use_path |-> Some(<<"ControlFlow">>)],
     [k |-> "Def", use_path |-> None],
     [k |-> "Macro"], [k |-> "Local"], [k |-> "Unresolved"], [k |-> "ParseError"]}

ImportedBreak ==
    BreakSnippet(<<"core::ops::ControlFlow">>,
                 [k |-> "Def", use_path |-> Some(<<"core", "ops", "ControlFlow">>)])

CustomSnippets ==
    {<<>>, <<WrapSnippet>>}
    \cup {<<BreakSnippet(<<"core::ops::ControlFlow">>, r)>> : r \in Resolutions}
    \cup {<<BreakSnippet(<<"core::ops::ControlFlow">>, r), WrapSnippet>> : r \in Resolutions}

PostfixConfigs ==
    [enable_postfix_completions : BOOLEAN, snippet_cap : BOOLEAN,
     postfix_snippets : {<<>>, <<ImportedBreak>>}, import_scope : {TRUE},
     core_iter_IntoIterator : BOOLEAN, original_token : {"", "dbg"}]

\* the configurations of the custom snippets
CustomConfigs ==
    [enable_postfix_completions : {TRUE}, snippet_cap : {TRUE},
     postfix_snippets : CustomSnippets \ {<<>>}, import_scope : BOOLEAN,
     core_iter_IntoIterator : {TRUE}, original_token : {"", "break"}]

NoFormatString == [ok |-> FALSE]

\* string literals and what the parser of format_like makes of them
FormatStrings ==
    {<<"\"{2+2}\"", [ok |-> TRUE, fmt |-> "\"{}\"", args |-> <<"2+2">>]>>,
     <<"\"{some_var:?}\"", [ok |-> TRUE, fmt |-> "\"{:?}\"", args |-> <<"some_var">>]>>,
     <<"\"Panic with {a}\"", [ok |-> TRUE, fmt |-> "\"Panic with {}\"", args |-> <<"a">>]>>,
     <<"\"{ 2+2 } { SomeStruct { val: 1, other: 32 } :?}\"",
       [ok |-> TRUE, fmt |-> "\"{} {:?}\"",
        args |-> <<"2+2", "SomeStruct { val: 1, other: 32 }">>]>>,
     <<"\"hello\"", [ok |-> TRUE, fmt |-> "\"hello\"", args |-> <<>>]>>,
     <<"\"{\"", NoFormatString>>}

PostfixContext(cfg, location, has_receiver, receiver, float, ancestors, ty, string, fs) ==
    [enable_postfix_completions |-> cfg.enable_postfix_completions,
     snippet_cap |-> cfg.snippet_cap,
     postfix_snippets |-> cfg.postfix_snippets,
     import_scope |-> cfg.import_scope,
     core_iter_IntoIterator |-> cfg.core_iter_IntoIterator,
     original_token |-> cfg.original_token,
     completion_location |-> location,
     has_receiver |-> has_receiver,
     receiver |-> receiver,
     receiver_is_ambiguous_float_literal |-> float,
     ancestors |-> ancestors,
     receiver_ty |-> ty,
     string_literal |-> string,
     format_string |-> fs]

CompletionContexts ==
    {PostfixContext(cfg, "FieldAccess", TRUE, <<"bar">>, FALSE, a, ty, FALSE, NoFormatString) :
        cfg \in PostfixConfigs, a \in FieldAncestors,
        ty \in {None} \cup {Some(t) : t \in ReceiverTypes}}
    \cup
    {PostfixContext(cfg, "MethodCall", TRUE, <<"bar">>, FALSE, a, Some(t), FALSE, NoFormatString) :
        cfg \in PostfixConfigs, a \in MethodAncestors, t \in ReceiverTypes}
    \cup
    {PostfixContext(cfg, "FieldAccess", TRUE, <<"42", ".">>, TRUE, a, Some(t), FALSE,
                    NoFormatString) :
        cfg \in PostfixConfigs \cup CustomConfigs, a \in FloatAncestors,
        t \in [refs : {0}, base : {"unknown", "f64"}]}
    \cup
    {PostfixContext(cfg, loc, TRUE, <<f[1]>>, FALSE, a, Some([refs |-> 1, base |-> "str"]),
                    TRUE, f[2]) :
        cfg \in PostfixConfigs, f \in FormatStrings,
        loc \in {"FieldAccess"}, a \in FieldAncestors}
    \cup
    {PostfixContext(cfg, loc, FALSE, <<>>, FALSE, <<"STMT_LIST">>, None, FALSE, NoFormatString) :
        cfg \in PostfixConfigs, loc \in {"FieldAccess", "MethodCall", "Other"}}

\* the file after the item has been applied: its edit, and its import at
\* the head of the file
ApplyItem(ctx, item) ==
    (IF item.import # None THEN <<"use">> \o item.import[1] \o <<";">> ELSE <<>>)
        \o ApplyEdit(ctx, item.edit)

CompletePostfix ==
    /\ called = "init"
    /\ \E ctx \in CompletionContexts :
        /\ called' = "complete_postfix"
        /\ input' = ctx
        /\ result' = complete_postfix(ctx)
        /\ folded' = NoValue

NextPostfix == CompletePostfix

SpecPostfix == Init /\ [][NextPostfix]_vars

(***************************************************************************)
(* What the properties speak of.                                           *)
(***************************************************************************)
\* the kind under the ascription wrappers of a range
RECURSIVE StripAscriptions(_)
StripAscriptions(kind) ==
    IF kind.k = "AscribeUserType" THEN StripAscriptions(kind.subpattern.kind) ELSE kind

\* the events of a trace that are emitted diagnostics
Emitted(t) == SelectSeq(t, LAMBDA ev : ev.ev = "emit")

\* the numeric value of an integer-like constant
NumValue(c) ==
    IF c.ty.k = "Int"
    THEN (IF c.bits[1] >= 128 THEN BytesToNat(c.bits) - Pow2(c.ty.w) ELSE BytesToNat(c.bits))
    ELSE BytesToNat(c.bits)

IsNaNConst(c) == c.ty.k = "Float" /\ FloatIsNaN(c.bits, c.ty.w)

\* the order of the values of two constants of one type, "None" when unordered
ValueOrder(a, b) ==
    IF a.ty.k = "Float" THEN FloatPartialCmp(a.bits, b.bits, a.ty.w)
    ELSE CmpInt(NumValue(a), NumValue(b))

\* the lowering of the two endpoints of the range pattern p, each alone
LoOf(p) == lower_pattern_range_endpoint(p.lo, <<>>)

HiOf(p) == lower_pattern_range_endpoint(p.hi, <<>>)

EndpointIsConst(r) == r.ok /\ r.v.is_ok

\* p has a bound, and each bound it has lowers to a constant of p's type
ConstEndpoints(p) ==
    /\ p.lo # None \/ p.hi # None
    /\ EndpointIsConst(LoOf(p)) /\ EndpointIsConst(HiOf(p))
    /\ LoOf(p).v.v.value # None => LoOf(p).v.v.value[1].ty = p.ty
    /\ HiOf(p).v.v.value # None => HiOf(p).v.v.value[1].ty = p.ty
    /\ p.lo = None => numeric_min_val(p.ty) # None
    /\ p.hi = None => numeric_max_val(p.ty) # None

LoConst(p) == IF p.lo = None THEN numeric_min_val(p.ty)[1] ELSE LoOf(p).v.v.value[1]

HiConst(p) == IF p.hi = None THEN numeric_max_val(p.ty)[1] ELSE HiOf(p).v.v.value[1]

NoAscriptions(p) == LoOf(p).v.v.ascr = None /\ HiOf(p).v.v.ascr = None

\* the last event of the trace is a diagnostic of one of `kinds`, and e is its handle
FailedWith(r, kinds) ==
    /\ r.ok /\ ~r.v.is_ok
    /\ r.t # <<>>
    /\ r.t[Len(r.t)].ev = "emit" /\ r.t[Len(r.t)].kind \in kinds
    /\ r.v.e = [by |-> "pass", n |-> Len(r.t)]

OrderingDiags == {"LowerRangeBoundMustBeLessThanOrEqualToUpper", "LowerRangeBoundMustBeLessThanUpper"}

\* the sub-patterns of a kind, in order
SubPatterns(kind) ==
    CASE kind.k \in {"AscribeUserType", "Deref"} -> <<kind.subpattern>>
      [] kind.k = "Binding" -> kind.subpattern
      [] kind.k \in {"Variant", "Leaf"} ->
            [i \in 1..Len(kind.subpatterns) |-> kind.subpatterns[i].pattern]
      [] kind.k \in {"Slice", "Array"} -> kind.prefix \o kind.slice \o kind.suffix
      [] kind.k = "Or" -> kind.pats
      [] OTHER -> <<>>

\* the nodes of a pattern tree, the root first
RECURSIVE NodesOf(_)
RECURSIVE NodesOfAll(_)
NodesOf(pat) == <<pat>> \o NodesOfAll(SubPatterns(pat.kind))

NodesOfAll(pats) ==
    IF pats = <<>> THEN <<>> ELSE NodesOf(Head(pats)) \o NodesOfAll(Tail(pats))

\* every node of the sequence satisfies P
AllNodes(ns, P(_)) == \A i \in 1..Len(ns) : P(ns[i])

\* some node of the sequence satisfies P
SomeNode(ns, P(_)) == \E i \in 1..Len(ns) : P(ns[i])

(***************************************************************************)
(* C1: an inclusive range whose bounds are the constants lo and hi of the  *)
(* range's type lowers to Range{lo, hi, Included} when lo < hi, to         *)
(* Constant{lo} when lo == hi (under the endpoints' ascriptions, if any),  *)
(* and fails with a malformed-range diagnostic when lo > hi.               *)
(***************************************************************************)
C1_InclusiveRange ==
    (called = "lower_pattern_range" /\ input.end = "Included" /\ ConstEndpoints(input)) =>
        LET lo == LoConst(input)
            hi == HiConst(input)
            ord == ValueOrder(lo, hi)
        IN  /\ result.ok
            /\ ord = "Less" =>
                  /\ result.v.is_ok
                  /\ StripAscriptions(result.v.v) = RangeKind(lo, hi, "Included")
                  /\ NoAscriptions(input) => result.v.v = RangeKind(lo, hi, "Included")
            /\ ord = "Equal" =>
                  /\ result.v.is_ok
                  /\ StripAscriptions(result.v.v) = ConstantKind(lo)
                  /\ NoAscriptions(input) => result.v.v = ConstantKind(lo)
            /\ ord = "Greater" =>
                  FailedWith(result, {"LowerRangeBoundMustBeLessThanOrEqualToUpper",
                                      "LiteralOutOfRange"})

\* each of the three cases of C1, on i8 bounds whose order is the signed one
C1_Witness ==
    /\ called = "lower_pattern_range" /\ input.end = "Included" /\ input.ty = I8
    /\ ConstEndpoints(input)
    /\ LoConst(input).bits = <<255>> /\ HiConst(input).bits = <<1>>
    /\ result.ok /\ result.v.is_ok
    /\ result.v.v = RangeKind(LoConst(input), HiConst(input), "Included")

(***************************************************************************)
(* C2: every Range node of a tree that pat_from_hir returns has bounds of  *)
(* the node's type, and compare_const_vals orders them Less (in value,     *)
(* too), whatever the end: an exclusive `lo..lo` and an inclusive          *)
(* Range{lo, lo} are never produced.  It holds of a filled open bound too. *)
(***************************************************************************)
RangeNodeOk(n) ==
    n.kind.k = "Range" =>
        /\ n.kind.lo.ty = n.ty /\ n.kind.hi.ty = n.ty
        /\ compare_const_vals(n.kind.lo, n.kind.hi) = "Less"
        /\ ValueOrder(n.kind.lo, n.kind.hi) = "Less"

C2_RangeNodes ==
    (called = "pat_from_hir" /\ result.ok) => AllNodes(NodesOf(result.v), RangeNodeOk)

\* `..2`, under an implicit dereference: the open bound filled with i8::MIN
C2_Witness ==
    /\ called = "pat_from_hir" /\ result.ok
    /\ input.kind = "Range" /\ input.lo = None /\ input.adj # <<>>
    /\ SomeNode(NodesOf(result.v),
                LAMBDA n : /\ n.kind.k = "Range" /\ n.kind.end = "Excluded"
                           /\ n.kind.lo = MkConst("Val", I8, <<128>>)
                           /\ n.kind.hi = MkConst("Ty", I8, <<2>>))

(***************************************************************************)
(* C3: when the ordering check fails and an endpoint expression is an      *)
(* integer literal (negated or not) that the range's integer type cannot   *)
(* represent, the one diagnostic is LiteralOutOfRange with the type's min  *)
(* and max, and no ordering diagnostic is emitted.                         *)
(***************************************************************************)
TyMin(ty) == IF ty.k = "Int" THEN 0 - Pow2(ty.w - 1) ELSE 0

TyMax(ty) == IF ty.k = "Int" THEN Pow2(ty.w - 1) - 1 ELSE Pow2(ty.w) - 1

\* the value an integer literal endpoint denotes, when it is one
IsIntLiteral(e) ==
    e # None /\ \/ (e[1].kind = "Lit" /\ e[1].lit.kind = "Int")
                \/ (e[1].kind = "Unary" /\ e[1].sub.kind = "Lit" /\ e[1].sub.lit.kind = "Int")

LiteralValue(e) == IF e[1].kind = "Unary" THEN 0 - e[1].sub.lit.val ELSE e[1].lit.val

Unrepresentable(e, ty) ==
    /\ ty.k \in {"Int", "Uint"}
    /\ IsIntLiteral(e)
    /\ LiteralValue(e) < TyMin(ty) \/ LiteralValue(e) > TyMax(ty)

\* the comparator was called and its answer is no well-ordered range
OrderingCheckFailed(r, end) ==
    \E i \in 1..Len(r.t) :
        /\ r.t[i].ev = "call" /\ r.t[i].kind = "compare_const_vals"
        /\ ~(r.t[i].ret = "Less" \/ (r.t[i].ret = "Equal" /\ end = "Included"))

C3_OverflowDiagnostic ==
    (/\ called = "lower_pattern_range"
     /\ result.ok
     /\ OrderingCheckFailed(result, input.end)
     /\ Unrepresentable(input.lo, input.ty) \/ Unrepresentable(input.hi, input.ty)) =>
        /\ FailedWith(result, {"LiteralOutOfRange"})
        /\ result.t[Len(result.t)].min = TyMin(input.ty)
        /\ result.t[Len(result.t)].max = TyMax(input.ty)
        /\ result.t[Len(result.t)].ty = input.ty
        /\ Len(Emitted(result.t)) = 1

\* `-130i8..2i8`: min = -128, max = 127
C3_Witness ==
    /\ called = "lower_pattern_range" /\ input.ty = I8 /\ input.end = "Excluded"
    /\ input.lo # None /\ input.lo[1].kind = "Unary" /\ input.lo[1].sub.kind = "Lit"
    /\ input.lo[1].sub.lit = Lit("Int", 130)
    /\ input.hi # None /\ input.hi[1].kind = "Lit" /\ input.hi[1].lit = Lit("Int", 2)
    /\ FailedWith(result, {"LiteralOutOfRange"})
    /\ result.t[Len(result.t)].min = -128 /\ result.t[Len(result.t)].max = 127
    /\ Len(Emitted(result.t)) = 1

(***************************************************************************)
(* C4: when pat_from_hir returns for a node with the adjustments           *)
(* <<T1, ..., Tn>>, the tree is n Deref nodes around the unadjusted        *)
(* pattern, the k-th from the outside of type Tk; it is the unadjusted     *)
(* pattern itself when n = 0.                                              *)
(***************************************************************************)
\* the pattern under n Deref nodes of pat; a node that is no Deref stops it
RECURSIVE UnderDerefs(_, _)
UnderDerefs(pat, n) ==
    IF n = 0 THEN pat
    ELSE IF pat.kind.k = "Deref" THEN UnderDerefs(pat.kind.subpattern, n - 1)
    ELSE MkPat(pat.span, NoValue, [k |-> "NoDeref"])

C4_DerefOrder ==
    (called = "pat_from_hir" /\ result.ok) =>
        LET WrapsUnadjusted(u) ==
                /\ u.ok
                /\ \A k \in 1..Len(input.adj) :
                      /\ UnderDerefs(result.v, k - 1).kind.k = "Deref"
                      /\ UnderDerefs(result.v, k - 1).ty = input.adj[k]
                /\ UnderDerefs(result.v, Len(input.adj)) = u.v
                /\ result.t = u.t
        IN  WrapsUnadjusted(lower_pattern_unadjusted(input, <<>>))

\* `1` matched against a &&i8: Deref(&&i8) of Deref(&i8) of the constant
C4_Witness ==
    /\ called = "pat_from_hir" /\ result.ok
    /\ input.kind = "Lit" /\ input.adj = <<RefTy(RefTy(I8)), RefTy(I8)>>
    /\ result.v.kind.k = "Deref" /\ result.v.ty = RefTy(RefTy(I8))
    /\ result.v.kind.subpattern.kind.k = "Deref" /\ result.v.kind.subpattern.ty = RefTy(I8)
    /\ result.v.kind.subpattern.kind.subpattern.kind.k = "Constant"

(***************************************************************************)
(* C5: slice_or_array_pattern at an array type of length L panics when     *)
(* there are more than L prefix and suffix sub-patterns, and returns an    *)
(* Array of them otherwise; at a slice type it returns a Slice of them,    *)
(* whatever their number.  Every Array node of a tree pat_from_hir returns *)
(* has at most as many prefix and suffix sub-patterns as its type's length.*)
(***************************************************************************)
ArrayNodeOk(n) ==
    n.kind.k = "Array" =>
        n.ty.k = "Array" /\ n.ty.w >= Len(n.kind.prefix) + Len(n.kind.suffix)

C5_ArrayLength ==
    /\ called = "slice_or_array_pattern" =>
          /\ (input.ty.k = "Array" /\ Len(input.prefix) + Len(input.suffix) > input.ty.w)
                => ~result.ok
          /\ (input.ty.k = "Array" /\ Len(input.prefix) + Len(input.suffix) <= input.ty.w)
                => /\ result.ok /\ result.v.k = "Array"
                   /\ Len(result.v.prefix) = Len(input.prefix)
                   /\ Len(result.v.suffix) = Len(input.suffix)
          /\ input.ty.k = "Slice"
                => /\ result.ok /\ result.v.k = "Slice"
                   /\ Len(result.v.prefix) = Len(input.prefix)
                   /\ Len(result.v.suffix) = Len(input.suffix)
    /\ (called = "pat_from_hir" /\ result.ok) => AllNodes(NodesOf(result.v), ArrayNodeOk)

\* `[_, .., 2..=1]` against [i8; 1]
C5_Witness ==
    /\ called = "slice_or_array_pattern" /\ input.ty = ArrayTy(1)
    /\ Len(input.prefix) = 1 /\ Len(input.suffix) = 1
    /\ ~result.ok

(***************************************************************************)
(* C6: folding a tree that pat_from_hir returned, with the default         *)
(* fold_pattern and fold_pattern_kind, returns a tree equal to it and      *)
(* leaves it as it was.                                                    *)
(***************************************************************************)
C6_FoldIdentity ==
    [][called' = "fold_with" => (folded' = result.v /\ result' = result)]_vars

\* the fold of `y @ (_ | 1 | x)`, a primary binding over an or-pattern
C6_Witness ==
    /\ called = "fold_with"
    /\ result.v.kind.k = "Binding" /\ result.v.kind.is_primary
    /\ result.v.kind.subpattern # None
    /\ result.v.kind.subpattern[1].kind.k = "Or"
    /\ Len(result.v.kind.subpattern[1].kind.pats) = MaxLen
    /\ folded.kind.k = "Binding" /\ folded.kind.is_primary
    /\ folded.kind.subpattern = result.v.kind.subpattern

(***************************************************************************)
(* C7: lower_patterns returns a list as long as its input whose i-th       *)
(* element is what lower_pattern returns for the i-th input, called after  *)
(* the elements before it; it is an Error node exactly when the i-th input *)
(* lowered alone is one, and is that lowering elsewhere.  A list with one  *)
(* malformed element has one Error node, at that element's position.       *)
(***************************************************************************)
\* the number of events the first n patterns of pats leave in the trace
RECURSIVE EventsBefore(_, _)
EventsBefore(pats, n) ==
    IF n = 0 THEN 0
    ELSE EventsBefore(pats, n - 1) + Len(lower_pattern(pats[n], <<>>).t)

\* `got` is the lowering `alone` of one element, but for the handle of its
\* Error node, which is the handle of the same event
SameButHandle(got, alone) ==
    IF alone.kind.k = "Error" /\ alone.kind.e.by = "pass"
    THEN /\ got.kind.k = "Error" /\ got.kind.e.by = "pass"
         /\ got.span = alone.span /\ got.ty = alone.ty
    ELSE got = alone

\* the positions of the Error nodes of a list of patterns
ErrorPositions(ps) == {i \in 1..Len(ps) : ps[i].kind.k = "Error"}

C7_ElementWise ==
    called = "lower_patterns" =>
        /\ result.ok
        /\ Len(result.v) = Len(input)
        /\ \A i \in 1..Len(input) :
              LET InPlace(r, alone) ==
                      /\ r.ok /\ alone.ok
                      /\ result.v[i] = r.v
                      /\ SameButHandle(result.v[i], alone.v)
                      /\ r.t = SubSeq(result.t, 1, Len(r.t))
                  before == SubSeq(result.t, 1, EventsBefore(input, i - 1))
              IN  InPlace(lower_pattern(input[i], before), lower_pattern(input[i], <<>>))
        /\ ErrorPositions(result.v)
              = {i \in 1..Len(input) : lower_pattern(input[i], <<>>).v.kind.k = "Error"}

\* `1 | 2..=1`: a constant, then the one Error node
C7_Witness ==
    /\ called = "lower_patterns"
    /\ input = <<KidLit, KidRangeBad>>
    /\ result.ok /\ Len(result.v) = 2
    /\ result.v[1].kind = ConstantKind(MkConst("Ty", I8, <<1>>))
    /\ ErrorPositions(result.v) = {2}

(***************************************************************************)
(* C8: pat_from_hir returns a tree exactly when the lowering reaches none  *)
(* of the cases that end in bug!, span_bug!, a failed assertion (a debug   *)
(* assertion in a build that has them) or a failed unwrap or expect; in    *)
(* each of them it panics, and no Error node is made.                      *)
(***************************************************************************)
\* lower_variant_or_leaf: a variant of an enum at a type that is no ADT,
\* function item or error type
VariantPanics(res, ty) ==
    /\ res.k \in {"Variant", "CtorVariant"} /\ res.adt.is_enum
    /\ ty.k \notin {"Adt", "FnDef", "Error"}

\* lower_path: such a variant, a constant without a valtree whose second
\* evaluation fails, or a named constant that does not resolve, in a build
\* with debug assertions
PathPanics(q) ==
    IF q.res.k \in {"Const", "AssocConst"}
    THEN \/ q.resolve = "Some" /\ q.eval = "Opaque" /\ q.eval_raw # "Ok"
         \/ q.resolve = "None" /\ q.res.k = "Const" /\ q.debug_assertions
    ELSE VariantPanics(q.res, q.ty)

\* lower_lit: an expression that is no literal, negated literal, path or
\* const block, or a literal whose conversion is a type error
LitPanics(e) ==
    CASE e.kind = "Path" -> PathPanics(e)
      [] e.kind = "ConstBlock" -> FALSE
      [] e.kind = "Lit" -> lit_to_const(e.lit, e.ty, FALSE).tag = "TypeError"
      [] e.kind = "Unary" ->
            IF e.sub.kind # "Lit" THEN TRUE
            ELSE lit_to_const(e.sub.lit, e.ty, TRUE).tag = "TypeError"
      [] OTHER -> TRUE

\* lower_pattern_range: an endpoint that panics, reached; or, both
\* endpoints constants, one not of the range's type or an open bound at a
\* type that has no numeric minimum or maximum
RangePanics(p) ==
    IF p.lo = None /\ p.hi = None THEN FALSE
    ELSE IF p.lo # None /\ LitPanics(p.lo[1]) THEN TRUE
    ELSE IF ~EndpointIsConst(LoOf(p)) THEN FALSE
    ELSE IF p.hi # None /\ LitPanics(p.hi[1]) THEN TRUE
    ELSE IF ~EndpointIsConst(HiOf(p)) THEN FALSE
    ELSE ~ConstEndpoints(p)

\* the sub-patterns of a surface pattern, in order
HirSubPatterns(pat) ==
    CASE pat.kind \in {"Ref", "Box"} -> <<pat.sub>>
      [] pat.kind = "Binding" -> pat.sub
      [] pat.kind = "Slice" -> pat.prefix \o pat.slice \o pat.suffix
      [] pat.kind \in {"Tuple", "TupleStruct", "Or"} -> pat.pats
      [] pat.kind = "Struct" -> [i \in 1..Len(pat.fields) |-> pat.fields[i].pat]
      [] OTHER -> <<>>

\* a tuple-struct pattern: the resolution is a variant or a constructor of
\* another ADT than the type's, a struct, union, alias or Self at the type
\* of an enum, or names no ADT at all
NoVariantOf(res, ty) ==
    CASE res.k \in {"Variant", "CtorVariant", "CtorStruct"} -> res.adt.did # ty.w
      [] res.k \in LeafResKinds -> \E adt \in {OptionAdt, SingleAdt} : adt.did = ty.w
      [] OTHER -> TRUE

\* the surface node itself is one of the cases
NodePanics(pat) ==
    CASE pat.kind = "Lit" -> LitPanics(pat.value)
      [] pat.kind = "Range" -> RangePanics(pat)
      [] pat.kind = "Path" -> PathPanics(pat)
      [] pat.kind = "Slice" ->
            \/ pat.ty.k \notin {"Slice", "Array"}
            \/ pat.ty.k = "Array" /\ pat.ty.w < Len(pat.prefix) + Len(pat.suffix)
      [] pat.kind = "Tuple" -> pat.ty.k # "Tuple"
      [] pat.kind = "Binding" ->
            \/ pat.bm.by = "Missing"
            \/ pat.bm.by = "Reference" /\ pat.ty.k # "Ref"
      [] pat.kind = "TupleStruct" ->
            pat.ty.k # "Adt" \/ NoVariantOf(pat.res, pat.ty) \/ VariantPanics(pat.res, pat.ty)
      [] pat.kind = "Struct" -> VariantPanics(pat.res, pat.ty)
      [] OTHER -> FALSE

\* the nodes of a surface pattern, the root first
RECURSIVE HirNodesOf(_)
RECURSIVE HirNodesOfAll(_)
HirNodesOf(pat) == <<pat>> \o HirNodesOfAll(HirSubPatterns(pat))

HirNodesOfAll(pats) ==
    IF pats = <<>> THEN <<>> ELSE HirNodesOf(Head(pats)) \o HirNodesOfAll(Tail(pats))

C8_PanicsExactly ==
    called = "pat_from_hir" =>
        (result.ok <=> ~SomeNode(HirNodesOf(input), NodePanics))

\* a tuple pattern at the type i8
C8_Witness ==
    /\ called = "pat_from_hir"
    /\ input.kind = "Tuple" /\ input.ty = I8 /\ Len(input.pats) = MaxLen
    /\ ~result.ok

\* the statement that pat_from_hir always returns a tree
C8_Total == called = "pat_from_hir" => result.ok

(***************************************************************************)
(* C9: in a tree pat_from_hir returns, the handle of an Error node is      *)
(* either one an earlier phase reported, carried by the surface pattern,   *)
(* or that of one event of this lowering, a diagnostic it emitted or a bug *)
(* it delayed; no two Error nodes have the same event.  Unless a struct or *)
(* tuple-struct pattern became an Error node itself, which discards its    *)
(* lowered sub-patterns, every diagnostic emitted and every bug delayed is *)
(* the event of an Error node, but for a diagnostic emitted for a range    *)
(* endpoint, which the bug delayed for that endpoint follows.              *)
(***************************************************************************)
IsErrorNode(n) == n.kind.k = "Error"

\* the positions in the trace of the diagnostics emitted and the bugs delayed
DiagEvents(t) == {i \in 1..Len(t) : t[i].ev \in {"emit", "delay_span_bug"}}

\* the handles of reported errors that a surface node carries
CarriedHandles(pat) ==
    (IF pat.ty.k = "Error" THEN {pat.ty.w} ELSE {})
    \cup (IF pat.kind # "Lit" THEN {}
          ELSE CASE pat.value.kind = "Lit" /\ pat.value.lit.kind = "Err" -> {pat.value.lit.val}
                 [] pat.value.kind = "ConstBlock" -> {pat.value.err}
                 [] OTHER -> {})

ReportedBefore(pat) ==
    LET Carried(ns) == UNION {CarriedHandles(ns[i]) : i \in 1..Len(ns)}
    IN  Carried(HirNodesOf(pat))

\* the event k of the trace t is a diagnostic of a range endpoint
EndpointDiag(t, k) ==
    /\ t[k].ev = "emit" /\ k < Len(t)
    /\ t[k + 1].ev = "delay_span_bug" /\ t[k + 1].kind = "bad range pattern endpoint"

\* lower_variant_or_leaf returns an Error kind for the struct or
\* tuple-struct node, and with it discards the sub-patterns it was given
DropsSubpatterns(pat) ==
    /\ pat.kind \in {"TupleStruct", "Struct"}
    /\ IF NormalizeRes(pat.res).k = "Variant"
       THEN pat.res.adt.is_enum /\ pat.ty.k = "Error"
       ELSE pat.res.k \notin LeafResKinds

C9_ErrorHandles ==
    (called = "pat_from_hir" /\ result.ok) =>
        LET OneEventEach(es) ==
                /\ \A i \in 1..Len(es) :
                      \/ es[i].kind.e.by = "prior" /\ es[i].kind.e.n \in ReportedBefore(input)
                      \/ es[i].kind.e.by = "pass" /\ es[i].kind.e.n \in DiagEvents(result.t)
                /\ \A i, j \in 1..Len(es) :
                      (i # j /\ es[i].kind.e.by = "pass") => es[i].kind.e # es[j].kind.e
                /\ ~SomeNode(HirNodesOf(input), DropsSubpatterns) =>
                      \A k \in DiagEvents(result.t) :
                          \/ \E i \in 1..Len(es) : es[i].kind.e = [by |-> "pass", n |-> k]
                          \/ EndpointDiag(result.t, k)
        IN  OneEventEach(SelectSeq(NodesOf(result.v), IsErrorNode))

\* `STATIC..=1`: the diagnostic of the static, then the delayed bug whose
\* handle the one Error node has
C9_Witness ==
    /\ called = "pat_from_hir" /\ result.ok
    /\ input.kind = "Range" /\ input.lo # None /\ input.lo[1].kind = "Path"
    /\ result.v.kind.k = "Error"
    /\ Len(Emitted(result.t)) = 1
    /\ Emitted(result.t)[1].kind = "StaticInPattern"
    /\ result.t[Len(result.t)].ev = "delay_span_bug"
    /\ result.v.kind.e = [by |-> "pass", n |-> Len(result.t)]

\* the statement that every Error node has one diagnostic that this
\* lowering emitted, and every such diagnostic one Error node
C9_OneEmittedEach ==
    (called = "pat_from_hir" /\ result.ok) =>
        LET OneEmitted(es) ==
                /\ \A i \in 1..Len(es) :
                      /\ es[i].kind.e.by = "pass"
                      /\ es[i].kind.e.n \in 1..Len(result.t)
                      /\ result.t[es[i].kind.e.n].ev = "emit"
                /\ \A i, j \in 1..Len(es) : i # j => es[i].kind.e # es[j].kind.e
                /\ Len(Emitted(result.t)) = Len(es)
        IN  OneEmitted(SelectSeq(NodesOf(result.v), IsErrorNode))

(***************************************************************************)
(* C10: on constants of one type, neither a float NaN, compare_const_vals  *)
(* is Some(_), and it is antisymmetric: Greater exactly when the swapped   *)
(* call is Less, Equal exactly when the swapped call is Equal.             *)
(***************************************************************************)
C10_CompareTotalAntisymmetric ==
    (/\ called = "compare_const_vals"
     /\ input[1].ty = input[2].ty
     /\ ~IsNaNConst(input[1]) /\ ~IsNaNConst(input[2])) =>
        LET swapped == compare_const_vals(input[2], input[1])
        IN  /\ result \in {"Less", "Equal", "Greater"}
            /\ result = "Greater" <=> swapped = "Less"
            /\ result = "Less" <=> swapped = "Greater"
            /\ result = "Equal" <=> swapped = "Equal"

\* a signed pair whose bits order the other way round: 1 against -1
C10_Witness ==
    /\ called = "compare_const_vals"
    /\ input[1] = MkConst("Ty", I8, <<1>>) /\ input[2] = MkConst("Val", I8, <<255>>)
    /\ result = "Greater"

(***************************************************************************)
(* C11: for f32 and f64, compare_const_vals returns None whenever either   *)
(* constant is a NaN; and a range whose bounds are constants, one of them  *)
(* a NaN, is rejected with the ordering diagnostic of its end: it lowers   *)
(* to no Range and no Constant.                                            *)
(***************************************************************************)
C11_NaNIncomparable ==
    /\ (/\ called = "compare_const_vals"
        /\ input[1].ty = input[2].ty
        /\ IsNaNConst(input[1]) \/ IsNaNConst(input[2])) => result = "None"
    /\ (/\ called = "lower_pattern_range"
        /\ ConstEndpoints(input)
        /\ IsNaNConst(LoConst(input)) \/ IsNaNConst(HiConst(input))) =>
            /\ FailedWith(result, {IF input.end = "Included"
                                   THEN "LowerRangeBoundMustBeLessThanOrEqualToUpper"
                                   ELSE "LowerRangeBoundMustBeLessThanUpper"})
            /\ Len(Emitted(result.t)) = 1

\* `NAN..=1.0`, the NaN a named constant
C11_Witness ==
    /\ called = "lower_pattern_range" /\ input.ty = F32 /\ input.end = "Included"
    /\ ConstEndpoints(input)
    /\ input.lo # None /\ input.lo[1].kind = "Path"
    /\ IsNaNConst(LoConst(input)) /\ ~IsNaNConst(HiConst(input))
    /\ FailedWith(result, {"LowerRangeBoundMustBeLessThanOrEqualToUpper"})

(***************************************************************************)
(* C12: on two constants of one signed integer type, in either             *)
(* representation each, compare_const_vals is the order of the values of   *)
(* the two's complement bit patterns, and neither fast path decides it.    *)
(***************************************************************************)
C12_SignedOrder ==
    (/\ called = "compare_const_vals"
     /\ input[1].ty = input[2].ty
     /\ input[1].ty.k = "Int") =>
        /\ result = CmpInt(NumValue(input[1]), NumValue(input[2]))
        /\ CompareFastPath(input[1], input[2]) = "Slow"

\* i8: the bits 0xFF are Less than the bits 0x00, both evaluated scalars
C12_Witness ==
    /\ called = "compare_const_vals"
    /\ input[1] = MkConst("Val", I8, <<255>>) /\ input[2] = MkConst("Val", I8, <<0>>)
    /\ result = "Less"

(***************************************************************************)
(* C13: lower_variant_or_leaf on a resolution to a variant (a variant      *)
(* constructor is a resolution to its variant) at an ADT or function       *)
(* type: the kind, under the user type's wrapper if there is one, is the   *)
(* Variant of the ADT, the type's arguments and the variant's index when   *)
(* the owning ADT is an enum, of any number of variants, and the Leaf of   *)
(* the sub-patterns when it is none.                                       *)
(***************************************************************************)
IsVariantRes(res) == res.k \in {"Variant", "CtorVariant"}

VariantKind(c) ==
    [k |-> "Variant", adt_def |-> c.res.adt, args |-> c.ty.args, variant_index |-> c.res.idx,
     subpatterns |-> c.subpatterns]

LeafKind(c) == [k |-> "Leaf", subpatterns |-> c.subpatterns]

C13_VariantOfEnum ==
    (/\ called = "lower_variant_or_leaf"
     /\ IsVariantRes(input.res)
     /\ input.ty.k \in {"Adt", "FnDef"}) =>
        /\ result.ok /\ result.t = <<>>
        /\ input.res.adt.is_enum => StripAscriptions(result.v) = VariantKind(input)
        /\ ~input.res.adt.is_enum => StripAscriptions(result.v) = LeafKind(input)

\* `Single::Only(_)`, of the enum with one variant: a Variant node
C13_Witness ==
    /\ called = "lower_variant_or_leaf"
    /\ input.res = Res("CtorVariant", SingleAdt, 0) /\ input.ty = AdtTy(SingleAdt, 0)
    /\ input.subpatterns # <<>> /\ input.user_ty = 0
    /\ result.ok /\ result.v = VariantKind(input)

\* C13 as stated: a Variant exactly when the owning type has more than one
\* variant, a Leaf when it has exactly one
C13_VariantByCount ==
    (/\ called = "lower_variant_or_leaf"
     /\ IsVariantRes(input.res)
     /\ input.ty.k \in {"Adt", "FnDef"}) =>
        /\ result.ok
        /\ (input.res.adt.is_enum /\ input.res.adt.nvariants > 1) <=>
               StripAscriptions(result.v) = VariantKind(input)
        /\ input.res.adt.nvariants = 1 => StripAscriptions(result.v) = LeafKind(input)

(***************************************************************************)
(* C14: lower_variant_or_leaf on a resolution that is no variant and none  *)
(* of the struct-like ones computes Error with the handle of the one       *)
(* diagnostic it emits: ConstParamInPattern for a const parameter,         *)
(* StaticInPattern for a static, NonConstPath for any other; on a          *)
(* struct-like resolution it computes Leaf and emits nothing.              *)
(***************************************************************************)
C14_LeafOrDiagnostic ==
    (called = "lower_variant_or_leaf" /\ ~IsVariantRes(input.res)) =>
        /\ result.ok
        /\ input.res.k \in LeafResKinds =>
              /\ StripAscriptions(result.v) = LeafKind(input)
              /\ result.t = <<>>
        /\ input.res.k \notin LeafResKinds =>
              /\ StripAscriptions(result.v) = ErrorKind([by |-> "pass", n |-> 1])
              /\ result.t = <<Diag(CASE input.res.k = "ConstParam" -> "ConstParamInPattern"
                                      [] input.res.k = "Static" -> "StaticInPattern"
                                      [] OTHER -> "NonConstPath", input.span)>>

\* a static item in a pattern
C14_Witness ==
    /\ called = "lower_variant_or_leaf" /\ input.res.k = "Static"
    /\ result.ok /\ result.v = ErrorKind([by |-> "pass", n |-> 1])
    /\ result.t = <<Diag("StaticInPattern", input.span)>>

(***************************************************************************)
(* C15: lower_variant_or_leaf returns, when a user type is recorded for    *)
(* the node, the AscribeUserType of Covariant variance around the pattern  *)
(* (same span and type) of the kind it computes without one, and that kind *)
(* itself when none is recorded.  The one exception is a variant of an     *)
(* enum at an error type: the Error of the type's handle is returned with  *)
(* no wrapper, a user type recorded or not.                                *)
(***************************************************************************)
\* the call returns early, or panics, in the match on the type
InTypeMatch(c) == IsVariantRes(c.res) /\ c.res.adt.is_enum /\ c.ty.k \notin {"Adt", "FnDef"}

\* the result of the same call with no user type recorded for the node
Unannotated(c) ==
    lower_variant_or_leaf(c.res, [c EXCEPT !.user_ty = 0], c.span, c.ty, c.subpatterns, <<>>)

CovariantWrapper(c, kind) ==
    AscribeUserType(Ascription(c.user_ty, c.span, c.ty, "Covariant"), MkPat(c.span, c.ty, kind))

C15_UserTypeWrapper ==
    called = "lower_variant_or_leaf" =>
        /\ ~InTypeMatch(input) =>
              /\ result.ok /\ Unannotated(input).ok
              /\ result.t = Unannotated(input).t
              /\ Unannotated(input).v.k \in {"Variant", "Leaf", "Error"}
              /\ input.user_ty # 0 => result.v = CovariantWrapper(input, Unannotated(input).v)
              /\ input.user_ty = 0 => result.v = Unannotated(input).v
        /\ (InTypeMatch(input) /\ input.ty.k = "Error") =>
              result = Ret(ErrorKind(PriorError(input.ty.w)), <<>>)

\* a const parameter in a pattern with a user type: the Error is wrapped
C15_Witness ==
    /\ called = "lower_variant_or_leaf" /\ input.res.k = "ConstParam" /\ input.user_ty = 9
    /\ result.ok /\ result.v.k = "AscribeUserType"
    /\ result.v.ascription.variance = "Covariant"
    /\ result.v.subpattern = MkPat(input.span, input.ty, ErrorKind([by |-> "pass", n |-> 1]))

\* C15 as stated: the wrapper for every resolution and every type, an error
\* type included
C15_WrapperAlways ==
    (called = "lower_variant_or_leaf" /\ input.ty.k \in {"Adt", "FnDef", "Error"}) =>
        /\ result.ok
        /\ input.user_ty # 0 =>
              /\ result.v.k = "AscribeUserType"
              /\ result.v.ascription.variance = "Covariant"
              /\ result.v.subpattern.kind = Unannotated(input).v
              /\ result.v.subpattern.span = input.span
              /\ result.v.subpattern.ty = input.ty
        /\ input.user_ty = 0 => result.v.k # "AscribeUserType"

(***************************************************************************)
(* C16: lower_path on a constant that resolves and evaluates returns the   *)
(* decomposer's pattern of the value; for an associated constant with a    *)
(* user type recorded for the node it is under an AscribeUserType of       *)
(* Contravariant variance, for a named constant it is returned as it is,   *)
(* a user type recorded or not.  A wrapper around the lowering of a path   *)
(* that names no constant is Covariant.                                    *)
(***************************************************************************)
Evaluates(q) ==
    /\ q.res.k \in {"Const", "AssocConst"}
    /\ q.resolve = "Some" /\ q.eval \in {"Valtree", "Opaque"} /\ q.eval_raw = "Ok"

\* the decomposer's output for the value of the path q
Decomposed(q) ==
    const_to_pat(MkConst(IF q.eval = "Valtree" THEN "Ty" ELSE "Val", q.ty, q.cbits), q.span)

C16_PathAscription ==
    called = "lower_path" =>
        /\ (Evaluates(input) /\ input.res.k = "AssocConst" /\ input.user_ty # 0) =>
              /\ result.ok
              /\ result.v.kind.k = "AscribeUserType"
              /\ result.v.kind.ascription.variance = "Contravariant"
              /\ result.v.kind.ascription.annotation.user_ty = input.user_ty
              /\ result.v.kind.subpattern = Decomposed(input)
              /\ result.v.span = input.span /\ result.v.ty = input.ty
        /\ (Evaluates(input) /\ (input.res.k = "Const" \/ input.user_ty = 0)) =>
              result.ok /\ result.v = Decomposed(input)
        /\ (input.res.k \notin {"Const", "AssocConst"} /\ result.ok) =>
              /\ result.v.kind.k = "AscribeUserType" =>
                    result.v.kind.ascription.variance = "Covariant"
              /\ result.v.kind.k = "AscribeUserType" => input.user_ty # 0

\* `<T as Tr>::C` written with a type, the constant opaque
C16_Witness ==
    /\ called = "lower_path" /\ input.res.k = "AssocConst" /\ input.user_ty = 7
    /\ input.eval = "Opaque" /\ input.ty = I8
    /\ result.ok /\ result.v.kind.k = "AscribeUserType"
    /\ result.v.kind.ascription.variance = "Contravariant"
    /\ result.v.kind.subpattern.kind.k = "Constant"
    /\ result.v.kind.subpattern.kind.value.repr = "Val"

(***************************************************************************)
(* C17: when an evaluation of the constant of a path or of an inline const *)
(* block fails with TooGeneric, the lowering is an Error node with the     *)
(* handle of ConstPatternDependsOnGenericParameter, which is the one       *)
(* diagnostic emitted.                                                     *)
(***************************************************************************)
EvalCalls ==
    {"const_eval_global_id_for_typeck", "const_eval_global_id",
     "const_eval_resolve_for_typeck", "const_eval_resolve"}

\* an evaluation was asked for and answered with the failure err
EvalFailedWith(t, err) ==
    \E i \in 1..Len(t) : t[i].ev = "call" /\ t[i].kind \in EvalCalls /\ t[i].ret = err

\* the kind a call of lower_path or of lower_inline_const returned
KindReturned == IF called = "lower_path" THEN result.v.kind ELSE result.v

C17_TooGeneric ==
    (/\ called \in {"lower_path", "lower_inline_const"}
     /\ EvalFailedWith(result.t, "TooGeneric")) =>
        /\ result.ok
        /\ KindReturned = ErrorKind([by |-> "pass", n |-> Len(result.t)])
        /\ result.t[Len(result.t)] =
              Diag("ConstPatternDependsOnGenericParameter", input.span)
        /\ Len(Emitted(result.t)) = 1

\* `const { f::<T>() }` in a generic function
C17_Witness ==
    /\ called = "lower_inline_const" /\ input.body.kind = "Call"
    /\ EvalFailedWith(result.t, "TooGeneric")
    /\ result.ok /\ result.v.k = "Error"
    /\ Emitted(result.t) = <<Diag("ConstPatternDependsOnGenericParameter", input.span)>>

(***************************************************************************)
(* C18: when the evaluation fails with an error that is not TooGeneric, an *)
(* error already reported, the lowering is an Error node: of a path, with  *)
(* the handle of CouldNotEvalConstPattern, the one diagnostic emitted; of  *)
(* an inline const block, with the handle of the reported error, and no    *)
(* diagnostic is emitted.                                                  *)
(***************************************************************************)
C18_EvalError ==
    (/\ called \in {"lower_path", "lower_inline_const"}
     /\ EvalFailedWith(result.t, "Reported")) =>
        /\ result.ok
        /\ called = "lower_path" =>
              /\ result.v.kind = ErrorKind([by |-> "pass", n |-> Len(result.t)])
              /\ result.t[Len(result.t)] = Diag("CouldNotEvalConstPattern", input.span)
              /\ Len(Emitted(result.t)) = 1
        /\ called = "lower_inline_const" =>
              /\ result.v = ErrorKind(PriorError(input.err))
              /\ Emitted(result.t) = <<>>

\* a named constant whose evaluation an earlier phase reported
C18_Witness ==
    /\ called = "lower_path" /\ input.res.k = "Const" /\ input.eval = "Reported"
    /\ result.ok /\ result.v.kind.k = "Error"
    /\ Emitted(result.t) = <<Diag("CouldNotEvalConstPattern", input.span)>>

\* C18 as stated: CouldNotEvalConstPattern is emitted for the path and for
\* the inline const block alike
C18_CouldNotEvalAlways ==
    (/\ called \in {"lower_path", "lower_inline_const"}
     /\ EvalFailedWith(result.t, "Reported")) =>
        /\ result.ok
        /\ KindReturned.k = "Error"
        /\ \E i \in 1..Len(result.t) :
              result.t[i] = Diag("CouldNotEvalConstPattern", input.span)

(***************************************************************************)
(* C19: lower_pattern_range of a range with neither bound returns Err with *)
(* the handle of a delayed bug, the only event: no endpoint is lowered,    *)
(* the comparator is not called and no diagnostic is emitted.  The surface *)
(* range lowers to an Error node of that handle, and its siblings are      *)
(* lowered as they are without it.                                         *)
(***************************************************************************)
TwiceOpen(p) == p.kind = "Range" /\ p.lo = None /\ p.hi = None

TwiceOpenBug(p) == [ev |-> "delay_span_bug", kind |-> "twice-open range pattern", span |-> p.span]

C19_TwiceOpenRange ==
    called = "pat_from_hir" =>
        /\ TwiceOpen(input) =>
              /\ lower_pattern_range(input.lo, input.hi, input.end, input.ty, input.span,
                                     input.untaught, <<>>)
                    = Ret(Err([by |-> "pass", n |-> 1]), <<TwiceOpenBug(input)>>)
              /\ result.ok /\ result.t = <<TwiceOpenBug(input)>>
              /\ UnderDerefs(result.v, Len(input.adj)).kind = ErrorKind([by |-> "pass", n |-> 1])
        /\ (input.kind = "Or" /\ Len(input.pats) = 2 /\ TwiceOpen(input.pats[1])) =>
              /\ result.ok /\ result.v.kind.k = "Or" /\ Len(result.v.kind.pats) = 2
              /\ result.v.kind.pats[1].kind = ErrorKind([by |-> "pass", n |-> 1])
              /\ result.t[1] = TwiceOpenBug(input.pats[1])
              /\ SameButHandle(result.v.kind.pats[2], lower_pattern(input.pats[2], <<>>).v)
              /\ Len(result.t) = 1 + Len(lower_pattern(input.pats[2], <<>>).t)
        /\ (input.kind = "Tuple" /\ Len(input.pats) = 2 /\ TwiceOpen(input.pats[2])) =>
              /\ result.ok /\ result.v.kind.k = "Leaf" /\ Len(result.v.kind.subpatterns) = 2
              /\ result.v.kind.subpatterns[1].pattern = lower_pattern(input.pats[1], <<>>).v
              /\ result.v.kind.subpatterns[2].pattern.kind =
                    ErrorKind([by |-> "pass", n |-> Len(result.t)])
              /\ result.t = Append(lower_pattern(input.pats[1], <<>>).t,
                                   TwiceOpenBug(input.pats[2]))

\* the range with neither bound, then a binding, in an or-pattern
C19_Witness ==
    /\ called = "pat_from_hir" /\ input.kind = "Or" /\ Len(input.pats) = 2
    /\ TwiceOpen(input.pats[1]) /\ input.pats[2].kind = "Binding"
    /\ result.ok /\ result.v.kind.pats[1].kind.k = "Error"
    /\ result.v.kind.pats[2].kind.k = "Binding"
    /\ result.t = <<TwiceOpenBug(input.pats[1])>>

(***************************************************************************)
(* C20: when lower_pattern_range returns a kind, it is the Range or the    *)
(* Constant under the ascriptions of the endpoints whose lowering is an    *)
(* AscribeUserType: the lower bound's innermost, the upper bound's         *)
(* outermost, each on a pattern of the range's span and type; a range      *)
(* that fails returns the error's handle and no pattern.                   *)
(***************************************************************************)
\* the ascription of the lowering of an endpoint expression, if it has one
LitAscription(e) ==
    IF e = None THEN None
    ELSE IF ~lower_lit(e[1], <<>>).ok THEN None
    ELSE IF lower_lit(e[1], <<>>).v.k = "AscribeUserType"
    THEN Some(lower_lit(e[1], <<>>).v.ascription)
    ELSE None

Ascribed(ascr, kind, span, ty) ==
    IF ascr = None THEN kind ELSE AscribeUserType(ascr[1], MkPat(span, ty, kind))

C20_RangeAscriptions ==
    (called = "lower_pattern_range" /\ result.ok) =>
        /\ result.v.is_ok =>
              /\ StripAscriptions(result.v.v).k \in {"Range", "Constant"}
              /\ result.v.v =
                    Ascribed(LitAscription(input.hi),
                             Ascribed(LitAscription(input.lo), StripAscriptions(result.v.v),
                                      input.span, input.ty),
                             input.span, input.ty)
        /\ ~result.v.is_ok => result.v = Err(result.v.e)

\* `<A as Tr>::LO ..= <B as Tr>::HI`, both written with a type
C20_Witness ==
    /\ called = "lower_pattern_range" /\ input.ty = I8
    /\ result.ok /\ result.v.is_ok
    /\ result.v.v.k = "AscribeUserType"
    /\ result.v.v.ascription.annotation.user_ty = 8
    /\ result.v.v.ascription.variance = "Contravariant"
    /\ result.v.v.subpattern.kind.k = "AscribeUserType"
    /\ result.v.v.subpattern.kind.ascription.annotation.user_ty = 7
    /\ result.v.v.subpattern.kind.subpattern.kind.k = "Range"

(***************************************************************************)
(* C21: in every tree pat_from_hir returns, the sub-pattern of an          *)
(* AscribeUserType node has the span of the node: of the wrapper of a      *)
(* variant or leaf, of an associated constant named by a path pattern or   *)
(* by a path in literal position, and of the wrappers put on a range.      *)
(***************************************************************************)
AscriptionSpanOk(n) == n.kind.k = "AscribeUserType" => n.kind.subpattern.span = n.span

C21_AscriptionSpans ==
    (called = "pat_from_hir" /\ result.ok) => AllNodes(NodesOf(result.v), AscriptionSpanOk)

\* a range with the ascriptions of both bounds: two nested wrappers
C21_Witness ==
    /\ called = "pat_from_hir" /\ result.ok /\ input.kind = "Range"
    /\ result.v.kind.k = "AscribeUserType"
    /\ result.v.kind.subpattern.kind.k = "AscribeUserType"
    /\ result.v.kind.subpattern.span = result.v.span
    /\ result.v.kind.subpattern.kind.subpattern.span = result.v.span
    /\ result.v.kind.ascription.annotation.span # result.v.span

(***************************************************************************)
(* C22: a binding recorded by reference lowers only at a reference type    *)
(* &T: the Binding node has the type T, its variable the type &T, its mode *)
(* is ByRef (Shared or Mut as recorded) and its mutability Not; a binding  *)
(* recorded by value has the surface type for both, the mode ByValue and   *)
(* the recorded mutability.                                                *)
(***************************************************************************)
C22_BindingTypes ==
    (called = "pat_from_hir" /\ input.kind = "Binding" /\ input.bm.by # "Missing") =>
        /\ (input.bm.by = "Reference" /\ input.ty.k # "Ref") => ~result.ok
        /\ (input.bm.by = "Reference" /\ input.ty.k = "Ref" /\ input.sub = None) => result.ok
        /\ (input.bm.by = "Reference" /\ result.ok) =>
              /\ UnderDerefs(result.v, Len(input.adj)).kind.k = "Binding"
              /\ UnderDerefs(result.v, Len(input.adj)).ty = input.ty.to
              /\ UnderDerefs(result.v, Len(input.adj)).kind.ty = input.ty
              /\ UnderDerefs(result.v, Len(input.adj)).kind.mode =
                    (IF input.bm.mutbl = "Mut" THEN "ByRef(Mut)" ELSE "ByRef(Shared)")
              /\ UnderDerefs(result.v, Len(input.adj)).kind.mutability = "Not"
        /\ (input.bm.by = "Value" /\ result.ok) =>
              /\ UnderDerefs(result.v, Len(input.adj)).kind.k = "Binding"
              /\ UnderDerefs(result.v, Len(input.adj)).ty = input.ty
              /\ UnderDerefs(result.v, Len(input.adj)).kind.ty = input.ty
              /\ UnderDerefs(result.v, Len(input.adj)).kind.mode = "ByValue"
              /\ UnderDerefs(result.v, Len(input.adj)).kind.mutability = input.bm.mutbl

\* `ref mut x` at &i8
C22_Witness ==
    /\ called = "pat_from_hir" /\ input.kind = "Binding" /\ input.adj = <<>>
    /\ input.bm = BindingModeRec("Reference", "Mut") /\ input.ty = RefTy(I8)
    /\ result.ok /\ result.v.ty = I8 /\ result.v.kind.ty = RefTy(I8)
    /\ result.v.kind.mode = "ByRef(Mut)" /\ result.v.kind.mutability = "Not"

(***************************************************************************)
(* C23: of two trees lowered together in one session, in every             *)
(* interleaving of the steps of the two calls, each call returns what it   *)
(* returns when its tree is lowered alone, a tree or a panic, and the      *)
(* session has recorded for it the set of diagnostics of the lowering      *)
(* alone, but for the note that teaches E0030: under -Z teach that note is *)
(* on the diagnostic of the call that asks the session first only.         *)
(***************************************************************************)
\* what the session has recorded for the call i
RecordedFor(sess, i) == {sess.diagnostics[k] : k \in {k \in 1..Len(sess.diagnostics) :
                                                         sess.diagnostics[k].who = i}}

\* the diagnostics and delayed bugs of a trace, as recorded for the call i
DiagnosticsOf(t, i) == {Tagged(t[k], i) : k \in {k \in 1..Len(t) : t[k].ev # "call"}}

\* a set of diagnostics without the notes that teach
WithoutTeach(ds) == {[x \in DOMAIN d |-> IF x = "teach" THEN FALSE ELSE d[x]] : d \in ds}

C23_ConcurrentButTeach ==
    called = "lower_concurrently" =>
        \A i \in 1..2 :
            result.call[i].pc = "done" =>
                /\ result.call[i].ret[1].ok = pat_from_hir(input[i]).ok
                /\ result.call[i].ret[1].v = pat_from_hir(input[i]).v
                /\ WithoutTeach(RecordedFor(result.sess, i))
                      = WithoutTeach(DiagnosticsOf(pat_from_hir(input[i]).t, i))

\* both calls have lowered `2..=1` under -Z teach and returned: the second
\* call asked the session first and was taught, the first call ran between
\* that and the second call's emit_err, and its diagnostic, without the
\* note, is recorded before the one with it
C23_Witness ==
    /\ called = "lower_concurrently"
    /\ result.call[1].pc = "done" /\ result.call[2].pc = "done"
    /\ input[1] = Untaught(KidRangeBad) /\ input[2] = Untaught(KidRangeBad)
    /\ result.sess.taught = {"E0030"}
    /\ Len(result.sess.diagnostics) = 2
    /\ result.sess.diagnostics[1].who = 1 /\ ~result.sess.diagnostics[1].teach
    /\ result.sess.diagnostics[2].who = 2 /\ result.sess.diagnostics[2].teach
    /\ result.call[1].ret[1].ok /\ result.call[1].ret[1].v.kind.k = "Error"
    /\ result.call[2].ret[1].ok /\ result.call[2].ret[1].v.kind.k = "Error"

\* the claim as written: the very diagnostics of the lowering alone
C23_ConcurrentLowering ==
    called = "lower_concurrently" =>
        \A i \in 1..2 :
            result.call[i].pc = "done" =>
                /\ result.call[i].ret[1].ok = pat_from_hir(input[i]).ok
                /\ result.call[i].ret[1].v = pat_from_hir(input[i]).v
                /\ RecordedFor(result.sess, i) = DiagnosticsOf(pat_from_hir(input[i]).t, i)

(***************************************************************************)
(* C24: with postfix completions enabled, the snippet capability and a     *)
(* typed dot receiver, the built-in snippets are, in this order: the group *)
(* of the type, then ref, refm, match, box, ok, err, some, dbg, dbgr,      *)
(* call, then let and letm or neither.  The group is ifl and while in      *)
(* their `let Some` / `let Ok` form exactly when the type without its      *)
(* references is Option / Result; it is if, while, not exactly when it is  *)
(* not and the type itself is bool or unknown; it is for only when neither *)
(* holds and the type implements IntoIterator; otherwise it is empty.      *)
(***************************************************************************)
PostfixOffered ==
    /\ called = "complete_postfix"
    /\ input.enable_postfix_completions /\ input.snippet_cap
    /\ input.completion_location \in {"MethodCall", "FieldAccess"} /\ input.has_receiver
    /\ input.receiver_ty # None

\* the built-in snippets among the items, in their order
BuiltInLabels ==
    {"if", "while", "not", "ifl", "for", "ref", "refm", "match", "box", "ok", "err", "some",
     "dbg", "dbgr", "call", "let", "letm"}

BuiltIn(acc) ==
    SelectSeq(acc, LAMBDA it : it.kind = "Postfix" /\ it.label \in BuiltInLabels)

LabelsOf(items) == [i \in 1..Len(items) |-> <<items[i].label, items[i].detail>>]

CommonLabels ==
    <<<<"ref", "&expr">>, <<"refm", "&mut expr">>, <<"match", "match expr {}">>,
      <<"box", "Box::new(expr)">>, <<"ok", "Ok(expr)">>, <<"err", "Err(expr)">>,
      <<"some", "Some(expr)">>, <<"dbg", "dbg!(expr)">>, <<"dbgr", "dbg!(&expr)">>,
      <<"call", "function(expr)">>>>

LetLabels == <<<<"let", "let">>, <<"letm", "let mut">>>>

PlainGroup == <<<<"if", "if expr {}">>, <<"while", "while expr {}">>, <<"not", "!expr">>>>

LetGroup(ctor) ==
    IF ctor = "Option"
    THEN <<<<"ifl", "if let Some {}">>, <<"while", "while let Some {}">>>>
    ELSE <<<<"ifl", "if let Ok {}">>, <<"while", "while let Ok {}">>>>

ForGroup == <<<<"for", "for ele in expr {}">>>>

C24_TypeFiltering ==
    PostfixOffered =>
        \E g \in {<<>>, PlainGroup, LetGroup("Option"), LetGroup("Result"), ForGroup} :
            /\ LabelsOf(BuiltIn(result)) \in {g \o CommonLabels, g \o CommonLabels \o LetLabels}
            /\ \A ctor \in {"Option", "Result"} :
                    g = LetGroup(ctor) <=> input.receiver_ty[1].base = ctor
            /\ g = PlainGroup <=>
                    /\ input.receiver_ty[1].base \notin {"Option", "Result"}
                    /\ input.receiver_ty[1] \in [refs : {0}, base : {"bool", "unknown"}]
            /\ g = ForGroup =>
                    /\ input.receiver_ty[1].base \notin {"Option", "Result"}
                    /\ input.receiver_ty[1] \notin [refs : {0}, base : {"bool", "unknown"}]
                    /\ input.receiver_ty[1].base = "Vec" /\ input.receiver_ty[1].refs <= 1
                    /\ input.core_iter_IntoIterator

\* a reference to an Option, which implements IntoIterator: ifl and while,
\* and no for
C24_Witness ==
    /\ PostfixOffered
    /\ input.receiver_ty[1] = [refs |-> 1, base |-> "Option"]
    /\ input.core_iter_IntoIterator
    /\ Len(BuiltIn(result)) = 12
    /\ BuiltIn(result)[1].label = "ifl" /\ BuiltIn(result)[3].label = "ref"

(***************************************************************************)
(* C25: ref, refm and the group of the type replace from the start of the  *)
(* bare receiver and hold its text; match, box, ok, err, some, dbg, dbgr,  *)
(* call, let and letm replace from the start of the outermost of the       *)
(* reference expressions directly enclosing the receiver and hold the text *)
(* of that expression; on `&&42.` dbg gives `dbg!(&&42)` and refm gives    *)
(* `&&&mut 42`; let and letm are offered exactly when the grandparent of   *)
(* that outermost expression is a statement list or an expression          *)
(* statement.                                                              *)
(***************************************************************************)
\* how many reference expressions enclose the receiver directly
DirectRefs(ancestors) ==
    CHOOSE n \in 0..Len(ancestors) :
        /\ \A i \in 1..n : ancestors[i] = "REF_EXPR"
        /\ n = Len(ancestors) \/ ancestors[n + 1] # "REF_EXPR"

BareText(ctx) ==
    IF ctx.receiver_is_ambiguous_float_literal
    THEN SubSeq(ctx.receiver, 1, Len(ctx.receiver) - 1)
    ELSE ctx.receiver

\* the insert holds the words w, one after the other
Holds(insert, w) ==
    \E i \in 0..(Len(insert) - Len(w)) : SubSeq(insert, i + 1, i + Len(w)) = w

MovingLabels == {"match", "box", "ok", "err", "some", "dbg", "dbgr", "call", "let", "letm"}

ItemOf(label) == CHOOSE it \in {result[i] : i \in 1..Len(result)} : it.label = label

C25_ReferenceHandling ==
    PostfixOffered =>
        /\ \A i \in 1..Len(BuiltIn(result)) :
            LET it == BuiltIn(result)[i]
                above == Len(LeadingFrom(input.ancestors, 0))
                n == DirectRefs(input.ancestors)
            IN  IF it.label \in MovingLabels
                THEN /\ it.edit.start = above - n
                     /\ Holds(it.edit.insert, [k \in 1..n |-> "&"] \o BareText(input))
                ELSE /\ it.edit.start = above
                     /\ Holds(it.edit.insert, BareText(input))
                     /\ it.label # "ref" => ~Holds(it.edit.insert, <<"&">> \o BareText(input))
        /\ (\E i \in 1..Len(result) : result[i].label = "let")
            <=> /\ DirectRefs(input.ancestors) + 2 <= Len(input.ancestors)
                /\ input.ancestors[DirectRefs(input.ancestors) + 2] \in {"STMT_LIST", "EXPR_STMT"}
        /\ (\E i \in 1..Len(result) : result[i].label = "letm")
            <=> (\E i \in 1..Len(result) : result[i].label = "let")
        /\ (input.receiver = <<"42", ".">>
                /\ input.ancestors = <<"REF_EXPR", "REF_EXPR", "STMT_LIST", "BLOCK_EXPR">>
                /\ input.original_token = "")
            => /\ ApplyEdit(input, ItemOf("dbg").edit) = <<"{", "dbg!(", "&", "&", "42", ")", "}">>
               /\ ApplyEdit(input, ItemOf("refm").edit) = <<"{", "&", "&", "&mut", "42", "}">>

\* `&&42.`: dbg replaces from the first &, refm from the literal
C25_Witness ==
    /\ PostfixOffered
    /\ input.receiver = <<"42", ".">>
    /\ input.ancestors = <<"REF_EXPR", "REF_EXPR", "STMT_LIST", "BLOCK_EXPR">>
    /\ ItemOf("dbg").edit.start = 1
    /\ ItemOf("refm").edit.start = 3
    /\ \A i \in 1..Len(result) : result[i].label # "let"

(***************************************************************************)
(* C26: error_on_literal_overflow returns the LiteralOutOfRange error, its *)
(* one diagnostic, if and only if the expression is an integer literal,    *)
(* negated or not, the type is an integer type and the value of the        *)
(* literal, negative when negated, is below the type's min or above its    *)
(* max; otherwise it returns Ok and emits nothing.                         *)
(***************************************************************************)
C26_LiteralOverflow ==
    called = "error_on_literal_overflow" =>
        /\ result.ok
        /\ ~result.v.is_ok <=> Unrepresentable(input.expr, input.ty)
        /\ IF result.v.is_ok THEN result.t = <<>>
           ELSE /\ Len(result.t) = 1
                /\ result.t[1] = [ev |-> "emit", kind |-> "LiteralOutOfRange",
                                  span |-> input.expr[1].span, ty |-> input.ty,
                                  min |-> TyMin(input.ty), max |-> TyMax(input.ty)]
                /\ result.v = Err(PassError(result.t))

\* -128 is an i8
C26_Witness ==
    /\ called = "error_on_literal_overflow" /\ input.ty = I8
    /\ input.expr # None /\ input.expr[1].kind = "Unary"
    /\ input.expr[1].sub.kind = "Lit" /\ input.expr[1].sub.lit = Lit("Int", 128)
    /\ result.v.is_ok

(***************************************************************************)
(* C27: a range whose endpoints pass the ordering check, or that fails     *)
(* before it, emits no LiteralOutOfRange.  A range that fails the ordering *)
(* check emits exactly one diagnostic: LiteralOutOfRange at the lower      *)
(* bound when its literal overflows; else LiteralOutOfRange at the upper   *)
(* bound when that literal overflows; else the ordering diagnostic at the  *)
(* range.                                                                  *)
(***************************************************************************)
C27_OneDiagnostic ==
    (called = "lower_pattern_range" /\ result.ok) =>
        IF ~OrderingCheckFailed(result, input.end)
        THEN \A i \in 1..Len(result.t) :
                ~(result.t[i].ev = "emit" /\ result.t[i].kind = "LiteralOutOfRange")
        ELSE /\ Len(Emitted(result.t)) = 1
             /\ result.t[Len(result.t)] = Emitted(result.t)[1]
             /\ ~result.v.is_ok
             /\ IF Unrepresentable(input.lo, input.ty)
                THEN /\ Emitted(result.t)[1].kind = "LiteralOutOfRange"
                     /\ Emitted(result.t)[1].span = input.lo[1].span
                ELSE IF Unrepresentable(input.hi, input.ty)
                THEN /\ Emitted(result.t)[1].kind = "LiteralOutOfRange"
                     /\ Emitted(result.t)[1].span = input.hi[1].span
                ELSE /\ Emitted(result.t)[1].kind \in OrderingDiags
                     /\ Emitted(result.t)[1].span = input.span

\* `255..128` at i8: both literals overflow, the lower bound's is reported
C27_Witness ==
    /\ called = "lower_pattern_range" /\ input.ty = I8
    /\ Unrepresentable(input.lo, input.ty) /\ Unrepresentable(input.hi, input.ty)
    /\ OrderingCheckFailed(result, input.end)
    /\ Len(Emitted(result.t)) = 1
    /\ Emitted(result.t)[1].span = input.lo[1].span
    /\ input.lo[1].span # input.hi[1].span

(***************************************************************************)
(* C28: once an evaluation of the constant has answered TooGeneric,        *)
(* lower_path asks for no further evaluation of it; lower_inline_const,    *)
(* whose first evaluation (const_eval_resolve_for_typeck) has answered     *)
(* TooGeneric, asks for exactly one more (const_eval_resolve), and after   *)
(* that one has answered TooGeneric for none; the Error node follows.      *)
(***************************************************************************)
\* the evaluations asked for, in their order
EvalsOf(t) == SelectSeq(t, LAMBDA ev : ev.ev = "call" /\ ev.kind \in EvalCalls)

\* the evaluations asked for after the first that answered TooGeneric
EvalsAfterTooGeneric(t) ==
    LET evals == EvalsOf(t)
        first == CHOOSE i \in 1..Len(evals) :
                    /\ evals[i].ret = "TooGeneric"
                    /\ \A j \in 1..(i - 1) : evals[j].ret # "TooGeneric"
    IN  SubSeq(evals, first + 1, Len(evals))

C28_TooGenericCalls ==
    (/\ called \in {"lower_path", "lower_inline_const"}
     /\ EvalFailedWith(result.t, "TooGeneric")) =>
        /\ result.ok /\ KindReturned.k = "Error"
        /\ called = "lower_path" => EvalsAfterTooGeneric(result.t) = <<>>
        /\ called = "lower_inline_const" =>
              /\ Len(EvalsOf(result.t)) = 2
              /\ EvalsOf(result.t)[1].kind = "const_eval_resolve_for_typeck"
              /\ EvalsOf(result.t)[1].ret = "TooGeneric"
              /\ EvalsOf(result.t)[2].kind = "const_eval_resolve"
              /\ EvalsOf(result.t)[2].ret = "TooGeneric"

\* `const { f::<T>() }` in a generic function: two evaluations, both
\* TooGeneric, then the Error node
C28_Witness ==
    /\ called = "lower_inline_const" /\ input.body.kind = "Call"
    /\ EvalFailedWith(result.t, "TooGeneric")
    /\ Len(EvalsOf(result.t)) = 2
    /\ EvalsAfterTooGeneric(result.t) =
          <<Call("const_eval_resolve", input.hir_id, "TooGeneric")>>
    /\ result.ok /\ result.v.k = "Error"

\* C28 as stated: no evaluation is asked for after one that answered
\* TooGeneric, of a path and of an inline const block alike
C28_NoFurtherEvaluation ==
    (/\ called \in {"lower_path", "lower_inline_const"}
     /\ EvalFailedWith(result.t, "TooGeneric")) =>
        /\ result.ok /\ KindReturned.k = "Error"
        /\ EvalsAfterTooGeneric(result.t) = <<>>

(***************************************************************************)
(* C29: when the lowering of the lower bound of a range fails,             *)
(* lower_pattern_range returns its error with its events only: the upper   *)
(* bound is not lowered, so nothing is emitted for it, and the comparator  *)
(* is not called.  When the lower bound lowers to a constant and the upper *)
(* bound fails, it returns the upper bound's error and the comparator is   *)
(* not called.                                                             *)
(***************************************************************************)
\* the event is of the lowering of the expression e
EventOf(ev, e) ==
    IF ev.ev = "call" THEN ev.id \in {e.hir_id, e.hir_id + 10} ELSE ev.span = e.span

ComparatorCalled(t) ==
    \E i \in 1..Len(t) : t[i].ev = "call" /\ t[i].kind = "compare_const_vals"

C29_FailFast ==
    (/\ called = "lower_pattern_range" /\ result.ok
     /\ input.lo # None \/ input.hi # None) =>
        LET UpperFails(h) ==
                (h.ok /\ ~h.v.is_ok) =>
                    /\ result = h
                    /\ ~ComparatorCalled(result.t)
            LowerFails(l) ==
                IF l.ok /\ ~l.v.is_ok
                THEN /\ result = l
                     /\ ~ComparatorCalled(result.t)
                     /\ input.hi # None =>
                            \A i \in 1..Len(result.t) : ~EventOf(result.t[i], input.hi[1])
                ELSE l.ok => UpperFails(lower_pattern_range_endpoint(input.hi, l.t))
        IN  LowerFails(lower_pattern_range_endpoint(input.lo, <<>>))

\* `STATIC..=C` with a C that does not resolve: the diagnostic of the
\* static and the delayed bug of the lower bound, nothing of the upper bound
C29_Witness ==
    /\ called = "lower_pattern_range"
    /\ input.lo # None /\ input.lo[1].kind = "Path" /\ input.lo[1].res.k = "Static"
    /\ input.hi # None /\ input.hi[1].kind = "Path" /\ input.hi[1].resolve = "Err"
    /\ Emitted(HiOf(input).t) # <<>>
    /\ result.ok /\ ~result.v.is_ok
    /\ Len(Emitted(result.t)) = 1
    /\ result.t[Len(result.t)] = DelayedBug("bad range pattern endpoint", input.lo[1].span)

(***************************************************************************)
(* C30: on two constants of one type that is not a float type, in either   *)
(* representation each, compare_const_vals returns Some(ordering); it      *)
(* returns None only for a float type with a NaN operand; and the          *)
(* comparator answers None to lower_pattern_range only for a range of a    *)
(* float type one of whose bounds is a NaN.                                *)
(***************************************************************************)
C30_NoneOnlyFloats ==
    /\ (called = "compare_const_vals" /\ input[1].ty = input[2].ty) =>
          /\ input[1].ty.k # "Float" => result \in {"Less", "Equal", "Greater"}
          /\ result = "None" =>
                /\ input[1].ty.k = "Float"
                /\ IsNaNConst(input[1]) \/ IsNaNConst(input[2])
    /\ (/\ called = "lower_pattern_range"
        /\ \E i \in 1..Len(result.t) :
              /\ result.t[i].ev = "call" /\ result.t[i].kind = "compare_const_vals"
              /\ result.t[i].ret = "None") =>
          /\ input.ty.k = "Float"
          /\ ConstEndpoints(input)
          /\ IsNaNConst(LoConst(input)) \/ IsNaNConst(HiConst(input))

\* two chars, one a type-level constant and one an evaluated scalar, which
\* the general path orders by their bits
C30_Witness ==
    /\ called = "compare_const_vals"
    /\ input[1].ty = CharTy /\ input[2].ty = CharTy
    /\ input[1].repr = "Ty" /\ input[2].repr = "Val"
    /\ input[1].bits = <<0, 0, 0, 97>> /\ input[2].bits = <<0, 0, 3, 122>>
    /\ result = "Less"

====
